---- MODULE Spec2Model ----
(***************************************************************************)
(* The GLB container reader and accessor extractor of aether::fs::gltf     *)
(* (src/aether/src/fs/gltf/mod.rs, json.rs) as a state machine.            *)
(*                                                                         *)
(* A run picks an input file (a byte sequence) and the document that the   *)
(* JSON text inside it denotes, executes Gltf::load step by step (header,  *)
(* one chunk per loop iteration, the final lookups), and then calls        *)
(* Gltf::load_accessor_data and Gltf::to_meshes on the loaded aggregate.   *)
(*                                                                         *)
(* A second specification, SpecOld, follows the older revision             *)
(* (src/aether/src/fs/gltf.rs) from the point where it has read the two    *)
(* chunks: it resolves the document into the aggregate, node matrices      *)
(* included.                                                               *)
(*                                                                         *)
(* Four further specifications follow other parts of the engine, each on   *)
(* its own variable: SpecDevice (vulkan/device.rs, create_swapchain),      *)
(* SpecWorld (ecs/mod.rs), SpecRenderer (renderer/mod.rs, the draw list)   *)
(* and SpecArbiter (arbiter/src/main.rs, the event loop).                  *)
(***************************************************************************)
EXTENDS Integers, Sequences, FiniteSets, TLC

(***************************************************************************)
(* Bounds of the model.                                                    *)
(***************************************************************************)
MaxChunks == 3
MaxCut == 8
MaxStray == 3
MaxCount == 3
MaxOff == 2
BinLen == 16

(***************************************************************************)
(* Program constants.                                                      *)
(***************************************************************************)
GLB_MAGIC == 1179937895
Json == 1313821514
Binary == 5130562

\* A chunk type code that is neither Json nor Binary (an input value).
UnknownChunkType == Binary + 1
\* A first header word that is not the magic number (an input value).
BadMagic == GLB_MAGIC + 1

(***************************************************************************)
(* Bytes and little-endian words.                                          *)
(***************************************************************************)
to_le_bytes(w) ==
    << w % 256, (w \div 256) % 256, (w \div 65536) % 256, (w \div 16777216) % 256 >>

from_le_bytes(bytes) ==
    bytes[1] + 256 * bytes[2] + 65536 * bytes[3] + 16777216 * bytes[4]

\* Read::read in place of read_exact: a short read succeeds and leaves the
\* rest of the zeroed buffer as it was.
read_exact_short(data, pos, n) ==
    IF pos + n <= Len(data)
    THEN [ok |-> TRUE, bytes |-> SubSeq(data, pos + 1, pos + n), pos |-> pos + n]
    ELSE [ok |-> TRUE,
          bytes |-> SubSeq(data, pos + 1, Len(data)) \o [i \in 1..(pos + n - Len(data)) |-> 0],
          pos |-> Len(data)]

\* Cursor<Vec<u8>>::read_exact: n bytes at the cursor, or an UnexpectedEof
\* error that leaves the cursor at the end of the data.
read_exact(data, pos, n) ==
    IF pos + n <= Len(data)
    THEN [ok |-> TRUE, bytes |-> SubSeq(data, pos + 1, pos + n), pos |-> pos + n]
    ELSE [ok |-> FALSE, bytes |-> << >>, pos |-> Len(data)]

\* GlbReader::read_u32 for Cursor<Vec<u8>>.
read_u32(data, pos) ==
    LET r == read_exact(data, pos, 4)
    IN  IF r.ok
        THEN [ok |-> TRUE, value |-> from_le_bytes(r.bytes), pos |-> r.pos]
        ELSE [ok |-> FALSE, value |-> 0, pos |-> r.pos]

\* FromPrimitive::from_u32 for GlbChunkType: Some for the two known codes.
GlbChunkType_from_u32_lenient(code) == << code >>

GlbChunkType_from_u32(code) ==
    IF code = Json \/ code = Binary THEN << code >> ELSE << >>

(***************************************************************************)
(* Option<T>: None is the empty sequence, Some(x) the sequence <<x>>.      *)
(***************************************************************************)
None == << >>
Some(x) == << x >>

(***************************************************************************)
(* The JSON object graph (json.rs).  References are raw indices; an        *)
(* absent optional field is None.                                          *)
(***************************************************************************)
ValidComponentTypes == {5120, 5121, 5122, 5123, 5125, 5126}
ValidElementTypes == {"SCALAR", "VEC2", "VEC3", "VEC4", "MAT2", "MAT3", "MAT4"}

\* Input values: the valid codes and strings, and some that are not.
ComponentTypes == ValidComponentTypes \cup {5124, 0}
ElementTypes == ValidElementTypes \cup {"VEC5", "vec3"}

Accessors ==
    [buffer_view : 0..1, byte_offset : 0..MaxOff, component_type : ComponentTypes,
     count : 0..MaxCount, element_type : ElementTypes]

BufferViews == [buffer : {0}, byte_offset : 0..MaxOff, byte_length : {4, BinLen}]

MkGltf(accessors, buffer_views, meshes, nodes, scenes) ==
    [accessors |-> accessors, buffers |-> << [byte_length |-> BinLen] >>,
     buffer_views |-> buffer_views, meshes |-> meshes, nodes |-> nodes,
     scenes |-> scenes, scene |-> 0]

\* Gltf::get_accessor_length: the byte length of an accessor's data, or the
\* panic of one of its two default arms (the element type is matched first).
ElementWidthNoMat(element_type) ==
    CASE element_type = "SCALAR" -> 1
      [] element_type = "VEC2" -> 2
      [] element_type = "VEC3" -> 3
      [] element_type = "VEC4" -> 4
      [] element_type = "MAT2" -> 2
      [] element_type = "MAT3" -> 3
      [] element_type = "MAT4" -> 4
      [] OTHER -> 0

ElementWidth(element_type) ==
    CASE element_type = "SCALAR" -> 1
      [] element_type = "VEC2" -> 2
      [] element_type = "VEC3" -> 3
      [] element_type \in {"VEC4", "MAT2"} -> 4
      [] element_type = "MAT3" -> 9
      [] element_type = "MAT4" -> 16
      [] OTHER -> 0

ComponentWidth(component_type) ==
    CASE component_type \in {5120, 5121} -> 1
      [] component_type \in {5122, 5123} -> 2
      [] component_type \in {5125, 5126} -> 4
      [] OTHER -> 0

\* A get_accessor_length whose default arms yield length 0 instead of panicking.
get_accessor_length_silent(accessor) ==
    [panic |-> "",
     value |-> ElementWidth(accessor.element_type)
                 * ComponentWidth(accessor.component_type) * accessor.count]

get_accessor_length(accessor) ==
    IF accessor.element_type \notin ValidElementTypes
    THEN [panic |-> "Invalid glTF accessor element type", value |-> 0]
    ELSE IF accessor.component_type \notin ValidComponentTypes
    THEN [panic |-> "Invalid glTF accessor component type", value |-> 0]
    ELSE [panic |-> "",
          value |-> ElementWidth(accessor.element_type)
                      * ComponentWidth(accessor.component_type) * accessor.count]

(***************************************************************************)
(* The older revision's type tables (fs/gltf.rs): the JSON string or code  *)
(* is converted to an enum, which panics on an unknown input, and the enum *)
(* gives the size.                                                         *)
(***************************************************************************)
AccessorElementType_from(string) ==
    CASE string = "SCALAR" -> "Scalar"
      [] string = "VEC2" -> "Vec2"
      [] string = "VEC3" -> "Vec3"
      [] string = "VEC4" -> "Vec4"
      [] string = "MAT2" -> "Mat2"
      [] string = "MAT3" -> "Mat3"
      [] string = "MAT4" -> "Mat4"
      [] OTHER -> "panic"

AccessorElementType_get_size(self) ==
    CASE self = "Scalar" -> 1
      [] self = "Vec2" -> 2
      [] self = "Vec3" -> 3
      [] self = "Vec4" -> 4
      [] self = "Mat2" -> 4
      [] self = "Mat3" -> 9
      [] self = "Mat4" -> 16

AccessorComponentType_from(code) ==
    CASE code = 5120 -> "I8"
      [] code = 5121 -> "U8"
      [] code = 5122 -> "I16"
      [] code = 5123 -> "U16"
      [] code = 5125 -> "U32"
      [] code = 5126 -> "F32"
      [] OTHER -> "panic"

AccessorComponentType_get_size(self) ==
    CASE self \in {"I8", "U8"} -> 1
      [] self \in {"I16", "U16"} -> 2
      [] self \in {"U32", "F32"} -> 4

\* The length AccessorRef::get_data computes from the converted accessor.
AccessorRef_get_data_length(accessor) ==
    LET component_type == AccessorComponentType_from(accessor.component_type)
        element_type == AccessorElementType_from(accessor.element_type)
    IN  IF component_type = "panic"
        THEN [panic |-> "Invalid AccessorComponentType", value |-> 0]
        ELSE IF element_type = "panic"
        THEN [panic |-> "Invalid AcccessorElementType", value |-> 0]
        ELSE [panic |-> "",
              value |-> AccessorComponentType_get_size(component_type)
                          * AccessorElementType_get_size(element_type)
                          * accessor.count]

(***************************************************************************)
(* Input documents.  AccessorDocs hold one accessor of every shape over    *)
(* no or one buffer view; GraphDocs hold an in-range and an out-of-range   *)
(* accessor and a mesh/node/scene graph whose references may dangle.       *)
(***************************************************************************)
BufferViewLists == {<< >>} \cup {<< v >> : v \in BufferViews}

AccessorDocs ==
    {MkGltf(<< a >>, vs, << >>, << >>, << >>) : a \in Accessors, vs \in BufferViewLists}

InRangeAccessor ==
    [buffer_view |-> 0, byte_offset |-> 1, component_type |-> 5123, count |-> 2,
     element_type |-> "VEC2"]
OutOfRangeAccessor ==
    [buffer_view |-> 0, byte_offset |-> 0, component_type |-> 5126, count |-> 2,
     element_type |-> "VEC3"]

Refs == 0..2
Primitives ==
    {[attributes |-> [name \in {"POSITION"} |-> p], indices |-> i] :
        p \in Refs, i \in {None} \cup {Some(r) : r \in Refs}}
MeshLists == {<< >>} \cup {<< [primitives |-> << q >>] >> : q \in Primitives}

MkNode(children, mesh) ==
    [children |-> children, matrix |-> None, translation |-> None,
     rotation |-> None, scale |-> None, mesh |-> mesh]
Nodes ==
    {MkNode(c, m) : c \in {<< >>} \cup {<< r >> : r \in Refs},
                    m \in {None, Some(0), Some(1)}}
NodeLists ==
    {<< >>} \cup {<< n >> : n \in Nodes} \cup {<< n, MkNode(<< >>, None) >> : n \in Nodes}
SceneLists ==
    {<< >>} \cup {<< [nodes |-> ns] >> : ns \in {<< >>, << 0 >>, << 0, 1 >>, << 2 >>}}

GraphDocs ==
    {MkGltf(<< InRangeAccessor, OutOfRangeAccessor >>,
            << [buffer |-> b, byte_offset |-> 2, byte_length |-> BinLen] >>, ms, ns, ss) :
        b \in {0, 1}, ms \in MeshLists, ns \in NodeLists, ss \in SceneLists}

\* Documents that declare no buffer, or two.
BufferLists == {<< >>, << [byte_length |-> BinLen], [byte_length |-> 4] >>}
BufferDocs ==
    {[g EXCEPT !.buffers = bs] :
        g \in {MkGltf(<< InRangeAccessor, OutOfRangeAccessor >>,
                      << [buffer |-> b, byte_offset |-> 2, byte_length |-> BinLen] >>,
                      << >>, << >>, << >>) : b \in {0, 1}},
        bs \in BufferLists}

\* Mesh documents: ten accessors over one buffer view of a 28-byte buffer
\* (POSITION data of 12, 24, misplaced 12 and 16 bytes; index data of two
\* u16, one u32, three u8, a misplaced u16 and one beyond the buffer; an
\* empty SCALAR), and meshes of up to two primitives that name them.
MeshAccessor(byte_offset, component_type, count, element_type) ==
    [buffer_view |-> 0, byte_offset |-> byte_offset, component_type |-> component_type,
     count |-> count, element_type |-> element_type]
MeshAccessors ==
    << MeshAccessor(0, 5126, 1, "VEC3"), MeshAccessor(4, 5126, 2, "VEC3"),
       MeshAccessor(2, 5126, 1, "VEC3"), MeshAccessor(0, 5126, 2, "VEC2"),
       MeshAccessor(12, 5123, 2, "SCALAR"), MeshAccessor(16, 5125, 1, "SCALAR"),
       MeshAccessor(20, 5121, 3, "SCALAR"), MeshAccessor(13, 5123, 1, "SCALAR"),
       MeshAccessor(24, 5123, 3, "SCALAR"), MeshAccessor(0, 5123, 0, "SCALAR") >>

MeshPrimitive(position, indices) ==
    [attributes |-> [name \in {"POSITION"} |-> position], indices |-> indices]
\* A primitive without the POSITION attribute.
NormalOnly(indices) ==
    [attributes |-> [name \in {"NORMAL"} |-> 0], indices |-> indices]
MeshIndices == {None} \cup {Some(r) : r \in {0, 4, 5, 6, 7, 8, 9, 10}}
MeshPrimitives ==
    {MeshPrimitive(p, i) : p \in {0, 1, 2, 3, 9, 10}, i \in MeshIndices}
        \cup {NormalOnly(i) : i \in {None, Some(4)}}
GoodPrimitives == {MeshPrimitive(0, Some(4)), MeshPrimitive(1, Some(5))}
Mesh(primitives) == [primitives |-> primitives]
MeshDocLists ==
    {<< >>, << Mesh(<< >>) >>}
        \cup {<< Mesh(<< q >>) >> : q \in MeshPrimitives}
        \cup {<< Mesh(<< g, q >>) >> : g \in GoodPrimitives, q \in MeshPrimitives}
        \cup {<< Mesh(<< q, g >>) >> : g \in GoodPrimitives, q \in MeshPrimitives}
        \cup {<< Mesh(<< g >>), Mesh(<< q >>) >> : g \in GoodPrimitives, q \in MeshPrimitives}
        \cup {<< Mesh(<< g, h >>), Mesh(<< >>), Mesh(<< q >>) >> :
                  g \in GoodPrimitives, h \in GoodPrimitives, q \in MeshPrimitives}
MeshDocs ==
    {[MkGltf(MeshAccessors, << [buffer |-> 0, byte_offset |-> 0, byte_length |-> 28] >>,
             ms, << >>, << >>) EXCEPT !.buffers = << [byte_length |-> 28] >>] :
        ms \in MeshDocLists}

\* The two fixed documents of the container inputs.
DocA == MkGltf(<< InRangeAccessor >>,
               << [buffer |-> 0, byte_offset |-> 0, byte_length |-> BinLen] >>,
               << >>, << >>, << >>)
DocB == MkGltf(<< >>, << >>, << >>, << >>, << >>)

(***************************************************************************)
(* JSON texts.  serde_json is an external parser: a JSON text is a short   *)
(* byte token, and what it deserializes to is TextA's document of the run  *)
(* (json_doc), DocB for TextB, and a parse error for every other text.     *)
(***************************************************************************)
TextA == << 65 >>
TextB == << 66 >>
BadText == << 33 >>

\* Every index reference of a document points into its table.
RefsInRange(g) ==
    /\ \A i \in DOMAIN g.accessors : g.accessors[i].buffer_view < Len(g.buffer_views)
    /\ \A i \in DOMAIN g.buffer_views : g.buffer_views[i].buffer < Len(g.buffers)
    /\ \A i \in DOMAIN g.meshes : \A j \in DOMAIN g.meshes[i].primitives :
          LET primitive == g.meshes[i].primitives[j]
          IN  /\ \A name \in DOMAIN primitive.attributes :
                    primitive.attributes[name] < Len(g.accessors)
              /\ primitive.indices # None => primitive.indices[1] < Len(g.accessors)
    /\ \A i \in DOMAIN g.nodes :
          /\ \A j \in DOMAIN g.nodes[i].children : g.nodes[i].children[j] < Len(g.nodes)
          /\ g.nodes[i].mesh # None => g.nodes[i].mesh[1] < Len(g.meshes)
    /\ \A i \in DOMAIN g.scenes :
          \A j \in DOMAIN g.scenes[i].nodes : g.scenes[i].nodes[j] < Len(g.nodes)

\* The accessors of a document whose byte range ends after `size` bytes.
AccessorsBeyond(g, size) ==
    {i \in DOMAIN g.accessors :
        /\ g.accessors[i].buffer_view < Len(g.buffer_views)
        /\ get_accessor_length(g.accessors[i]).panic = ""
        /\ g.accessors[i].byte_offset
             + g.buffer_views[g.accessors[i].buffer_view + 1].byte_offset
             + get_accessor_length(g.accessors[i]).value > size}

\* Gltf::load_json_chunk: Ok(document) or the parse error.
\* (Variants: one that rejects a document with an accessor beyond its declared
\* buffer, one that rejects a document with a dangling reference.)
load_json_chunk_eager_bounds(data, doc) ==
    LET gltf == IF data = TextA THEN doc ELSE DocB
    IN  [ok |-> data \in {TextA, TextB}
                  /\ (gltf.buffers = << >>
                        \/ AccessorsBeyond(gltf, gltf.buffers[1].byte_length) = {}),
         gltf |-> gltf]

load_json_chunk_checked_refs(data, doc) ==
    LET gltf == IF data = TextA THEN doc ELSE DocB
    IN  [ok |-> data \in {TextA, TextB} /\ RefsInRange(gltf), gltf |-> gltf]

load_json_chunk(data, doc) ==
    IF data = TextA THEN [ok |-> TRUE, gltf |-> doc]
    ELSE IF data = TextB THEN [ok |-> TRUE, gltf |-> DocB]
    ELSE [ok |-> FALSE, gltf |-> DocB]

(***************************************************************************)
(* Input files.  A file is described by its three header words, its        *)
(* chunks, and its tail: `cut` bytes missing from the end of the last      *)
(* chunk (or of the header, when there is no chunk), or `stray` extra      *)
(* bytes after the last chunk.                                             *)
(***************************************************************************)
Bin1 == [i \in 1..BinLen |-> 9 + i]
Bin2 == << 40, 41, 42, 43 >>

MkChunk(type, body) == [type |-> type, body |-> body]
ChunkJsonA == MkChunk(Json, TextA)
ChunkJsonB == MkChunk(Json, TextB)
ChunkBadJson == MkChunk(Json, BadText)
ChunkBin1 == MkChunk(Binary, Bin1)
ChunkBin2 == MkChunk(Binary, Bin2)
ChunkUnknown == MkChunk(UnknownChunkType, << 7 >>)
ChunkKinds == {ChunkJsonA, ChunkJsonB, ChunkBadJson, ChunkBin1, ChunkBin2, ChunkUnknown}

RECURSIVE SeqsUpTo(_, _)
SeqsUpTo(S, n) ==
    IF n = 0 THEN {<< >>}
    ELSE LET shorter == SeqsUpTo(S, n - 1)
         IN  shorter \cup {Append(q, x) : q \in {r \in shorter : Len(r) = n - 1}, x \in S}

ChunkBytes(chunk) == to_le_bytes(Len(chunk.body)) \o to_le_bytes(chunk.type) \o chunk.body

RECURSIVE StreamBytes(_)
StreamBytes(chunks) ==
    IF chunks = << >> THEN << >>
    ELSE ChunkBytes(Head(chunks)) \o StreamBytes(Tail(chunks))

HeaderBytes(in) == to_le_bytes(in.magic) \o to_le_bytes(in.version) \o to_le_bytes(in.length)

FileBytes(in) ==
    LET whole == HeaderBytes(in) \o StreamBytes(in.chunks)
    IN  SubSeq(whole, 1, Len(whole) - in.cut) \o [i \in 1..in.stray |-> 99]

\* The size of the last unit of the file: the last chunk, or the header.
LastUnitSize(chunks) ==
    IF chunks = << >> THEN 12 ELSE 8 + Len(chunks[Len(chunks)].body)

MkInput(magic, version, length, chunks, cut, stray) ==
    [magic |-> magic, version |-> version, length |-> length, chunks |-> chunks,
     cut |-> cut, stray |-> stray]

\* Every header over every chunk list, whole.
WholeInputs ==
    {MkInput(m, v, l, cs, 0, 0) :
        m \in {GLB_MAGIC, BadMagic}, v \in {1, 2}, l \in {0, 12},
        cs \in SeqsUpTo(ChunkKinds, MaxChunks)}

\* Good and bad headers over short chunk lists, cut short or with stray bytes.
TailInputs ==
    {in \in {MkInput(m, 2, 0, cs, c, s) :
                m \in {GLB_MAGIC, BadMagic}, cs \in SeqsUpTo(ChunkKinds, 2),
                c \in 0..MaxCut, s \in 0..MaxStray} :
        /\ in.cut = 0 \/ in.stray = 0
        /\ in.cut < LastUnitSize(in.chunks)}

\* The plain file: a good header, a JSON chunk and the binary chunk.
PlainInput == MkInput(GLB_MAGIC, 2, 0, << ChunkJsonA, ChunkBin1 >>, 0, 0)

\* The mesh file: a good header, a JSON chunk and a 28-byte binary chunk.
BinMesh == [i \in 1..28 |-> 9 + i]
MeshInput == MkInput(GLB_MAGIC, 2, 0, << ChunkJsonA, MkChunk(Binary, BinMesh) >>, 0, 0)

\* The addresses the allocator may give the aggregate's buffer, modulo 4.
BufferAddresses == 0..3

(***************************************************************************)
(* Gltf::load, in pieces.                                                  *)
(***************************************************************************)
\* The two ensure! checks on the header words: the error, or "" to go on.
check_header_magic_only(magic, version) ==
    IF magic # GLB_MAGIC THEN "Magic" ELSE ""

check_header(magic, version) ==
    IF magic # GLB_MAGIC THEN "Magic"
    ELSE IF version # 2 THEN "Version"
    ELSE ""

\* GlbChunks::get_chunk: the data of the first chunk of the type, if any.
RECURSIVE get_chunk_last(_, _)
get_chunk_last(chunks, chunk_type) ==
    IF chunks = << >> THEN None
    ELSE IF chunks[Len(chunks)].chunk_type = chunk_type
    THEN Some(chunks[Len(chunks)].data)
    ELSE get_chunk_last(SubSeq(chunks, 1, Len(chunks) - 1), chunk_type)

\* (Variant: a lookup by position, the JSON chunk first and the binary second.)
get_chunk_by_position(chunks, chunk_type) ==
    LET at == IF chunk_type = Json THEN 1 ELSE 2
    IN  IF Len(chunks) >= at /\ chunks[at].chunk_type = chunk_type
        THEN Some(chunks[at].data)
        ELSE None

RECURSIVE get_chunk(_, _)
get_chunk(chunks, chunk_type) ==
    IF chunks = << >> THEN None
    ELSE IF Head(chunks).chunk_type = chunk_type THEN Some(Head(chunks).data)
    ELSE get_chunk(Tail(chunks), chunk_type)

\* The end of Gltf::load, after the chunk loop: the JSON chunk is looked up
\* and parsed, then the binary chunk is looked up.
load_finish_binary_first(chunks, doc) ==
    LET json_data == get_chunk(chunks, Json)
        binary_data == get_chunk(chunks, Binary)
    IN  IF binary_data = None THEN [error |-> "NoBinaryChunk", self |-> None]
        ELSE IF json_data = None THEN [error |-> "NoJsonChunk", self |-> None]
        ELSE LET parsed == load_json_chunk(json_data[1], doc)
             IN  IF ~parsed.ok THEN [error |-> "JsonParse", self |-> None]
                 ELSE [error |-> "",
                       self |-> Some([gltf |-> parsed.gltf, buffer |-> binary_data[1]])]

load_finish(chunks, doc) ==
    LET json_data == get_chunk(chunks, Json)
    IN  IF json_data = None THEN [error |-> "NoJsonChunk", self |-> None]
        ELSE LET parsed == load_json_chunk(json_data[1], doc)
                 binary_data == get_chunk(chunks, Binary)
             IN  IF ~parsed.ok THEN [error |-> "JsonParse", self |-> None]
                 ELSE IF binary_data = None
                 THEN [error |-> "NoBinaryChunk", self |-> None]
                 ELSE [error |-> "",
                       self |-> Some([gltf |-> parsed.gltf, buffer |-> binary_data[1]])]

\* The header of Gltf::load: the third word is read into _length and only
\* the first two are checked.
\* (Variant: one that rejects a declared length shorter than the header.)
header_error_length_checked(magic, version, length) ==
    IF check_header(magic, version) # "" THEN check_header(magic, version)
    ELSE IF length < 12 THEN "Length"
    ELSE ""

header_error(magic, version, length) == check_header(magic, version)

\* The chunk loop of Gltf::load from a cursor position on: the chunks read
\* until the first length word that cannot be read, or the error of `?`.
RECURSIVE read_chunks(_, _, _)
read_chunks(data, at, read) ==
    LET chunk_length == read_u32(data, at)
        chunk_type == read_u32(data, chunk_length.pos)
        chunk_data == read_exact(data, chunk_type.pos, chunk_length.value)
        known == GlbChunkType_from_u32(chunk_type.value)
    IN  IF ~chunk_length.ok THEN [error |-> "", chunks |-> read]
        ELSE IF ~chunk_type.ok \/ ~chunk_data.ok
        THEN [error |-> "UnexpectedEof", chunks |-> read]
        ELSE IF known = None THEN [error |-> "ChunkType", chunks |-> read]
        ELSE read_chunks(data, chunk_data.pos,
                         Append(read, [chunk_type |-> known[1],
                                       data |-> chunk_data.bytes]))

\* Gltf::load as a function of the file's bytes (and of the document its
\* JSON text denotes): the error ("": none) and the aggregate.
load(data, doc) ==
    LET magic == read_u32(data, 0)
        version == read_u32(data, magic.pos)
        length == read_u32(data, version.pos)
    IN  IF ~magic.ok \/ ~version.ok \/ ~length.ok
        THEN [error |-> "UnexpectedEof", self |-> None]
        ELSE IF header_error(magic.value, version.value, length.value) # ""
        THEN [error |-> header_error(magic.value, version.value, length.value),
              self |-> None]
        ELSE LET r == read_chunks(data, length.pos, << >>)
             IN  IF r.error # "" THEN [error |-> r.error, self |-> None]
                 ELSE load_finish(r.chunks, doc)

(***************************************************************************)
(* Gltf::load_accessor_data.                                               *)
(***************************************************************************)
\* The absolute offset of an accessor's data in the buffer.
accessor_offset_no_view(accessor, buffer_view) == accessor.byte_offset

accessor_offset(accessor, buffer_view) == accessor.byte_offset + buffer_view.byte_offset

\* &buffer[start..end]: the bytes, or the panic of an out-of-range slice.
slice_clamped(buffer, start, end) ==
    IF start > end THEN [panic |-> "slice index starts after its end", data |-> << >>]
    ELSE [panic |-> "",
          data |-> SubSeq(buffer, start + 1, IF end > Len(buffer) THEN Len(buffer) ELSE end)]

slice(buffer, start, end) ==
    IF start > end THEN [panic |-> "slice index starts after its end", data |-> << >>]
    ELSE IF end > Len(buffer)
    THEN [panic |-> "range end index out of range for slice", data |-> << >>]
    ELSE [panic |-> "", data |-> SubSeq(buffer, start + 1, end)]

\* The outcome of a call: the panic message ("": it returned), the returned
\* bytes, and the locals offset and length (-1: not computed).
Outcome(panic, data, offset, length) ==
    [panic |-> panic, data |-> data, offset |-> offset, length |-> length]

\* (Variant: one that refuses an accessor that ends after its buffer view.)
load_accessor_data_in_view(self, accessor_ref) ==
    IF accessor_ref >= Len(self.gltf.accessors)
    THEN Outcome("index out of bounds: accessors", << >>, -1, -1)
    ELSE LET accessor == self.gltf.accessors[accessor_ref + 1]
         IN  IF accessor.buffer_view >= Len(self.gltf.buffer_views)
             THEN Outcome("index out of bounds: buffer_views", << >>, -1, -1)
             ELSE LET buffer_view == self.gltf.buffer_views[accessor.buffer_view + 1]
                      offset == accessor_offset(accessor, buffer_view)
                      length == get_accessor_length(accessor)
                  IN  IF length.panic # ""
                      THEN Outcome(length.panic, << >>, offset, -1)
                      ELSE IF accessor.byte_offset + length.value > buffer_view.byte_length
                      THEN Outcome("accessor overruns its buffer view", << >>,
                                   offset, length.value)
                      ELSE LET bytes == slice(self.buffer, offset, offset + length.value)
                           IN  Outcome(bytes.panic, bytes.data, offset, length.value)

load_accessor_data(self, accessor_ref) ==
    IF accessor_ref >= Len(self.gltf.accessors)
    THEN Outcome("index out of bounds: accessors", << >>, -1, -1)
    ELSE LET accessor == self.gltf.accessors[accessor_ref + 1]
         IN  IF accessor.buffer_view >= Len(self.gltf.buffer_views)
             THEN Outcome("index out of bounds: buffer_views", << >>, -1, -1)
             ELSE LET buffer_view == self.gltf.buffer_views[accessor.buffer_view + 1]
                      offset == accessor_offset(accessor, buffer_view)
                      length == get_accessor_length(accessor)
                  IN  IF length.panic # ""
                      THEN Outcome(length.panic, << >>, offset, -1)
                      ELSE LET bytes == slice(self.buffer, offset, offset + length.value)
                           IN  Outcome(bytes.panic, bytes.data, offset, length.value)

(***************************************************************************)
(* Gltf::to_meshes.  The casts Vertex::from_bytes and u16::from_bytes      *)
(* (bytemuck's try_from_bytes) fail on a run of the wrong size and on a    *)
(* run whose address is not a multiple of the target's alignment.          *)
(***************************************************************************)
\* slice::chunks: consecutive runs of `size` bytes, the last one shorter
\* when the length is not a multiple of `size`.
chunks_of(data, size) ==
    [k \in 1..((Len(data) + size - 1) \div size) |->
        SubSeq(data, size * (k - 1) + 1,
               IF size * k > Len(data) THEN Len(data) ELSE size * k)]

try_from_bytes(bytes, address, size, align) ==
    IF Len(bytes) # size THEN "SizeMismatch"
    ELSE IF address % align # 0 THEN "TargetAlignmentGreaterAndInputNotAligned"
    ELSE ""

\* Vertex::from_bytes: three f32 (here their bit patterns) at an address.
\* (Variant: a cast that takes a short run, padded with zero bytes.)
Vertex_from_bytes_padded(bytes, address) ==
    LET padded == bytes \o [i \in 1..(12 - Len(bytes)) |-> 0]
    IN  [error |-> try_from_bytes(padded, address, 12, 4),
         vertex |-> [position |-> << from_le_bytes(SubSeq(padded, 1, 4)),
                                    from_le_bytes(SubSeq(padded, 5, 8)),
                                    from_le_bytes(SubSeq(padded, 9, 12)) >>]]

Vertex_from_bytes(bytes, address) ==
    IF try_from_bytes(bytes, address, 12, 4) # ""
    THEN [error |-> try_from_bytes(bytes, address, 12, 4), vertex |-> None]
    ELSE [error |-> "",
          vertex |-> [position |-> << from_le_bytes(SubSeq(bytes, 1, 4)),
                                     from_le_bytes(SubSeq(bytes, 5, 8)),
                                     from_le_bytes(SubSeq(bytes, 9, 12)) >>]]

\* u16::from_bytes, on a little-endian target.
\* (Variant: the two bytes taken in the other order.)
u16_from_bytes_swapped(bytes, address) ==
    IF try_from_bytes(bytes, address, 2, 2) # ""
    THEN [error |-> try_from_bytes(bytes, address, 2, 2), value |-> 0]
    ELSE [error |-> "", value |-> 256 * bytes[1] + bytes[2]]

u16_from_bytes(bytes, address) ==
    IF try_from_bytes(bytes, address, 2, 2) # ""
    THEN [error |-> try_from_bytes(bytes, address, 2, 2), value |-> 0]
    ELSE [error |-> "", value |-> bytes[1] + 256 * bytes[2]]

\* The smallest member of a non-empty set of numbers.
Least(S) == CHOOSE x \in S : \A y \in S : x <= y

\* vertices.chunks(12).map(..).collect(): the vertices, or the panic of the
\* first run that cannot be cast.
to_vertices(data, address) ==
    LET runs == chunks_of(data, 12)
        cast == [k \in DOMAIN runs |-> Vertex_from_bytes(runs[k], address + 12 * (k - 1))]
        failed == {k \in DOMAIN runs : cast[k].error # ""}
    IN  IF failed # {}
        THEN [panic |-> "Failed to turn into a Vertex", items |-> << >>]
        ELSE [panic |-> "", items |-> [k \in DOMAIN runs |-> cast[k].vertex]]

\* A split by the width of a 32-bit index: one value per 4 bytes.
to_indices_by_word(data, address) ==
    LET runs == chunks_of(data, 4)
    IN  [panic |-> "",
         items |-> [k \in DOMAIN runs |-> runs[k][1] + 256 * runs[k][2]]]

\* indices.chunks(2).map(..).collect(): the indices as u32, or the panic of
\* the first run that cannot be cast.
to_indices(data, address) ==
    LET runs == chunks_of(data, 2)
        cast == [k \in DOMAIN runs |-> u16_from_bytes(runs[k], address + 2 * (k - 1))]
        failed == {k \in DOMAIN runs : cast[k].error # ""}
    IN  IF failed # {}
        THEN [panic |-> "Failed to turn into a index", items |-> << >>]
        ELSE [panic |-> "", items |-> [k \in DOMAIN runs |-> cast[k].value]]

\* The closure of to_meshes, for one primitive: the MeshData, or the first
\* panic (POSITION lookup, its data, its cast, the indices, their data,
\* their cast, in that order).
\* (Variant: a primitive without indices yields an empty index list.)
primitive_mesh_data_lenient(self, address, primitive) ==
    IF "POSITION" \notin DOMAIN primitive.attributes
    THEN [panic |-> "no entry found for key", mesh |-> None]
    ELSE LET position == load_accessor_data(self, primitive.attributes["POSITION"])
             vertices == to_vertices(position.data, address + position.offset)
         IN  IF position.panic # "" THEN [panic |-> position.panic, mesh |-> None]
             ELSE IF vertices.panic # "" THEN [panic |-> vertices.panic, mesh |-> None]
             ELSE IF primitive.indices = None
             THEN [panic |-> "", mesh |-> [vertices |-> vertices.items, indices |-> << >>]]
             ELSE LET index_data == load_accessor_data(self, primitive.indices[1])
                      indices == to_indices(index_data.data, address + index_data.offset)
                  IN  IF index_data.panic # ""
                      THEN [panic |-> index_data.panic, mesh |-> None]
                      ELSE IF indices.panic # ""
                      THEN [panic |-> indices.panic, mesh |-> None]
                      ELSE [panic |-> "",
                            mesh |-> [vertices |-> vertices.items,
                                      indices |-> indices.items]]

primitive_mesh_data(self, address, primitive) ==
    IF "POSITION" \notin DOMAIN primitive.attributes
    THEN [panic |-> "no entry found for key", mesh |-> None]
    ELSE LET position == load_accessor_data(self, primitive.attributes["POSITION"])
             vertices == to_vertices(position.data, address + position.offset)
         IN  IF position.panic # "" THEN [panic |-> position.panic, mesh |-> None]
             ELSE IF vertices.panic # "" THEN [panic |-> vertices.panic, mesh |-> None]
             ELSE IF primitive.indices = None
             THEN [panic |-> "Aether currently doesn't support glTF meshes without index buffers",
                   mesh |-> None]
             ELSE LET index_data == load_accessor_data(self, primitive.indices[1])
                      indices == to_indices(index_data.data, address + index_data.offset)
                  IN  IF index_data.panic # ""
                      THEN [panic |-> index_data.panic, mesh |-> None]
                      ELSE IF indices.panic # ""
                      THEN [panic |-> indices.panic, mesh |-> None]
                      ELSE [panic |-> "",
                            mesh |-> [vertices |-> vertices.items,
                                      indices |-> indices.items]]

\* The primitives in the order flat_map visits them: mesh by mesh.
\* (Variant: only the first primitive of each mesh.)
RECURSIVE flat_primitives_first_only(_)
flat_primitives_first_only(meshes) ==
    IF meshes = << >> THEN << >>
    ELSE (IF Head(meshes).primitives = << >> THEN << >>
          ELSE << Head(meshes).primitives[1] >>)
            \o flat_primitives_first_only(Tail(meshes))

RECURSIVE flat_primitives(_)
flat_primitives(meshes) ==
    IF meshes = << >> THEN << >>
    ELSE Head(meshes).primitives \o flat_primitives(Tail(meshes))

\* Gltf::to_meshes with the buffer at an address: the list of MeshData, or
\* the panic of the first primitive that fails (`at`: its place, 0: none).
to_meshes(self, address) ==
    LET primitives == flat_primitives(self.gltf.meshes)
        results == [k \in DOMAIN primitives |->
                       primitive_mesh_data(self, address, primitives[k])]
        failed == {k \in DOMAIN primitives : results[k].panic # ""}
    IN  IF failed # {}
        THEN [panic |-> results[Least(failed)].panic, at |-> Least(failed),
              meshes |-> << >>]
        ELSE [panic |-> "", at |-> 0,
              meshes |-> [k \in DOMAIN primitives |-> results[k].mesh]]

(***************************************************************************)
(* The older revision (fs/gltf.rs).  After reading the container, its      *)
(* Gltf::load resolves the deserialized document into the aggregate: the   *)
(* buffer, then the buffer views, accessors, meshes, nodes and scenes.     *)
(* Matrices hold integers (exact in f32) and are indexed [row][column].    *)
(***************************************************************************)
make_vec3(values) == values

\* make_quat: the four values are the coordinates i, j, k, w.
make_quat(values) == [i |-> values[1], j |-> values[2], k |-> values[3], w |-> values[4]]

identity == [r \in 1..4 |-> [c \in 1..4 |-> IF r = c THEN 1 ELSE 0]]

\* The matrix product a * b.
mat_mul(a, b) ==
    [r \in 1..4 |-> [c \in 1..4 |->
        a[r][1] * b[1][c] + a[r][2] * b[2][c] + a[r][3] * b[3][c] + a[r][4] * b[4][c]]]

\* make_mat4: sixteen values in column-major order.
make_mat4(values) == [r \in 1..4 |-> [c \in 1..4 |-> values[4 * (c - 1) + r]]]

\* scale(m, v): m times the scaling matrix of v.
scale(m, v) ==
    mat_mul(m, [r \in 1..4 |-> [c \in 1..4 |->
                   IF r # c THEN 0 ELSE IF r = 4 THEN 1 ELSE v[r]]])

\* translate(m, v): m times the translation matrix of v.
translate(m, v) ==
    mat_mul(m, [r \in 1..4 |-> [c \in 1..4 |->
                   IF r = c THEN 1 ELSE IF c = 4 THEN v[r] ELSE 0]])

\* quat_to_mat4: the homogeneous rotation matrix of a quaternion taken as a
\* unit quaternion without normalizing it.
quat_to_mat4(q) ==
    LET ii == q.i * q.i
        jj == q.j * q.j
        kk == q.k * q.k
        ww == q.w * q.w
        ij == 2 * q.i * q.j
        wk == 2 * q.w * q.k
        wj == 2 * q.w * q.j
        ik == 2 * q.i * q.k
        jk == 2 * q.j * q.k
        wi == 2 * q.w * q.i
    IN  << << ww + ii - jj - kk, ij - wk, wj + ik, 0 >>,
           << wk + ij, ww - ii + jj - kk, jk - wi, 0 >>,
           << ik - wj, wi + jk, ww - ii - jj + kk, 0 >>,
           << 0, 0, 0, 1 >> >>

\* matrix_comp_mult: the component-wise product.
matrix_comp_mult(a, b) == [r \in 1..4 |-> [c \in 1..4 |-> a[r][c] * b[r][c]]]

\* The scale, rotation and translation steps of json::Node::get_matrix.
trs_matrix(self) ==
    LET scaled == IF self.scale # None
                  THEN scale(identity, make_vec3(self.scale[1]))
                  ELSE identity
        rotated == IF self.rotation # None
                   THEN matrix_comp_mult(quat_to_mat4(make_quat(self.rotation[1])), scaled)
                   ELSE scaled
    IN  IF self.translation # None
        THEN translate(rotated, make_vec3(self.translation[1]))
        ELSE rotated

\* json::Node::get_matrix.
\* (Variant: one that applies scale, rotation and translation to the matrix.)
get_matrix_with_trs(self) ==
    IF self.matrix # None
    THEN mat_mul(make_mat4(self.matrix[1]), trs_matrix(self))
    ELSE trs_matrix(self)

get_matrix(self) ==
    IF self.matrix # None THEN make_mat4(self.matrix[1]) ELSE trs_matrix(self)

\* Gltf::load_buffers: Ok(Buffer), the Err of the ensure!, or the panic of
\* the index into an empty table.
load_buffers(binary_chunk_data, data) ==
    IF Len(data.buffers) > 1
    THEN [error |-> "only the .glb binary chunk is supported", panic |-> "",
          buffer |-> None]
    ELSE IF data.buffers = << >>
    THEN [error |-> "", panic |-> "index out of bounds: buffers", buffer |-> None]
    ELSE [error |-> "", panic |-> "",
          buffer |-> Some([length |-> data.buffers[1].byte_length,
                           data |-> binary_chunk_data])]

\* Result::unwrap on the result of load_buffers.
unwrap(result) ==
    IF result.panic # "" THEN result
    ELSE IF result.error # ""
    THEN [result EXCEPT !.panic = "called Result::unwrap() on an Err value"]
    ELSE result

\* One accessor of Gltf::load_accessors: the conversions of the component
\* type and then of the element type panic on an unknown input.
load_accessor(accessor) ==
    LET component_type == AccessorComponentType_from(accessor.component_type)
        element_type == AccessorElementType_from(accessor.element_type)
    IN  IF component_type = "panic"
        THEN [panic |-> "Invalid AccessorComponentType", accessor |-> None]
        ELSE IF element_type = "panic"
        THEN [panic |-> "Invalid AcccessorElementType", accessor |-> None]
        ELSE [panic |-> "",
              accessor |-> Some([buffer_view |-> accessor.buffer_view,
                                 offset |-> accessor.byte_offfset,
                                 component_type |-> component_type,
                                 normalized |-> accessor.normalized,
                                 count |-> accessor.count,
                                 element_type |-> element_type])]

\* One node of Gltf::load_nodes.
load_node(node) ==
    [children |-> node.children, matrix |-> get_matrix(node), mesh |-> node.mesh]

\* Input documents of the older revision.
OldAccessors ==
    {[buffer_view |-> 0, byte_offfset |-> 1, component_type |-> t, normalized |-> FALSE,
      count |-> 2, element_type |-> e] :
        t \in {5123, 5124}, e \in {"VEC2", "VEC5"}}
OldBufferLists ==
    {<< >>, << [byte_length |-> BinLen, uri |-> None] >>,
     << [byte_length |-> BinLen, uri |-> None], [byte_length |-> 4, uri |-> None] >>}

Mat16A == << 1, 2, 3, 4, 5, 6, 7, 8, 9, 10, 11, 12, 13, 14, 15, 16 >>
Mat16B == << 1, 0, 0, 0, 0, 1, 0, 0, 0, 0, 1, 0, 5, 0, 0, 1 >>
Matrices == {None, Some(Mat16A), Some(Mat16B)}
Translations == {None, Some(<< 5, 0, 0 >>), Some(<< 1, 2, 3 >>)}
Rotations == {None, Some(<< 0, 0, 0, 1 >>), Some(<< 1, 0, 0, 0 >>), Some(<< 0, 0, 1, 1 >>)}
Scales == {None, Some(<< 2, 1, 1 >>), Some(<< 2, 3, 4 >>)}
OldNodes ==
    {[children |-> << >>, matrix |-> m, translation |-> t, rotation |-> r,
      scale |-> s, mesh |-> None] :
        m \in Matrices, t \in Translations, r \in Rotations, s \in Scales}
OldNodeLists ==
    {<< >>} \cup {<< n >> : n \in OldNodes}
        \cup {<< [n EXCEPT !.mesh = Some(0), !.children = << 1 >>], n >> : n \in OldNodes}

MkOldGltf(accessors, buffers, nodes) ==
    [accessors |-> accessors, buffers |-> buffers,
     buffer_views |-> << [buffer |-> 0, byte_offset |-> 2, byte_length |-> 8] >>,
     meshes |-> << [primitives |-> << [attributes |-> [position |-> 0],
                                      indices |-> 0] >>] >>,
     nodes |-> nodes, scenes |-> << [nodes |-> << 0 >>] >>]

OldDocs ==
    {MkOldGltf(<< a >>, bs, << >>) : a \in OldAccessors, bs \in OldBufferLists}
        \cup {MkOldGltf(<< >>, << [byte_length |-> BinLen, uri |-> None] >>, ns) :
                  ns \in OldNodeLists}

(***************************************************************************)
(* vulkan/device.rs: Device::create_swapchain.  The physical device's      *)
(* swapchain support (formats, modes, capabilities), its queue families    *)
(* and the window size are inputs; the driver's answers are chosen by the  *)
(* environment.                                                            *)
(***************************************************************************)
\* u32::MAX, written as the 32-bit pattern 0xFFFFFFFF reads as a signed
\* integer; choose_extent only compares it for equality.
u32_MAX == -1

SurfaceFormat(format, color_space) == [format |-> format, color_space |-> color_space]

Extent2D(width, height) == [width |-> width, height |-> height]

max(a, b) == IF a >= b THEN a ELSE b

min(a, b) == IF a <= b THEN a ELSE b

\* Iterator::filter and collect: the items that are in the set kept.
filter(list, kept) == SelectSeq(list, LAMBDA item : item \in kept)

first(list) == IF list = << >> THEN None ELSE Some(list[1])

choose_extent(self, window) ==
    LET capabilities == self.physical.swapchain.capabilities
    IN  IF /\ capabilities.current_extent.width # u32_MAX
           /\ capabilities.current_extent.height # u32_MAX
        THEN capabilities.current_extent
        ELSE Extent2D(min(max(window.width, capabilities.min_image_extent.width),
                          capabilities.max_image_extent.width),
                      min(max(window.height, capabilities.min_image_extent.height),
                          capabilities.max_image_extent.height))

is_optimal_format(format) ==
    format.format = "B8G8R8A8_SRGB" /\ format.color_space = "SRGB_NONLINEAR"

\* The surface format: the first optimal one, else the first one, else a panic.
choose_format(formats) ==
    LET optimal_formats ==
            filter(formats, { formats[i] : i \in { j \in DOMAIN formats :
                                                     is_optimal_format(formats[j]) } })
    IN  IF first(optimal_formats) # None
        THEN [panic |-> "", format |-> first(optimal_formats)]
        ELSE IF first(formats) # None
             THEN [panic |-> "", format |-> first(formats)]
             ELSE [panic |-> "No swapchain formats", format |-> None]

\* The present mode: MAILBOX when the device lists it, else FIFO.
choose_mode(modes) ==
    LET optimal_modes == filter(modes, { "MAILBOX" })
    IN  IF first(optimal_modes) # None
        THEN optimal_modes[1]
        ELSE "FIFO"

choose_num_images(capabilities) ==
    IF capabilities.max_image_count # 0
    THEN min(capabilities.min_image_count + 1, capabilities.max_image_count)
    ELSE capabilities.min_image_count + 1

swapchain_info(self, window, format, mode) ==
    [min_image_count      |-> choose_num_images(self.physical.swapchain.capabilities),
     image_format         |-> format.format,
     image_color_space    |-> format.color_space,
     image_extent         |-> choose_extent(self, window),
     image_sharing_mode   |->
         IF self.physical.families.graphics = self.physical.families.present
         THEN "EXCLUSIVE" ELSE "CONCURRENT",
     queue_family_indices |->
         IF self.physical.families.graphics = self.physical.families.present
         THEN << >>
         ELSE << self.physical.families.graphics, self.physical.families.present >>,
     present_mode         |-> mode]

\* The outcome of a call: a panic message, or the VkResult; info is the
\* create info handed to the driver, None when the driver was not reached.
SwapchainCall(panic, result_error, info, swapchain) ==
    [panic |-> panic, error |-> result_error, info |-> info, swapchain |-> swapchain]

\* Image::new for a config with an existing handle: the handle is wrapped
\* and Ok returned, without a call of the driver.
Image_new(config) ==
    [error |-> "",
     image |-> [handle |-> config.existing_handle[1],
                size   |-> config.size,
                format |-> config.format]]

\* driver: the answers of create_swapchain, get_swapchain_images (with the
\* number of images) and create_full_view.
create_swapchain(self, window, driver) ==
    LET chosen_format == choose_format(self.physical.swapchain.formats)
        chosen_mode   == choose_mode(self.physical.swapchain.modes)
        format        == chosen_format.format[1]
        info          == swapchain_info(self, window, format, chosen_mode)
        wrapped       == [i \in 1..driver.image_count |->
                             Image_new([existing_handle |-> Some(i),
                                        size   |-> [width  |-> info.image_extent.width,
                                                    height |-> info.image_extent.height],
                                        format |-> format.format])]
        images        == [i \in 1..driver.image_count |-> wrapped[i].image]
    IN  IF chosen_format.panic # ""
        THEN SwapchainCall(chosen_format.panic, "", None, None)
        ELSE IF driver.create_swapchain # "SUCCESS"
        THEN SwapchainCall("", driver.create_swapchain, Some(info), None)
        ELSE IF driver.get_swapchain_images # "SUCCESS"
        THEN SwapchainCall("", driver.get_swapchain_images, Some(info), None)
        ELSE IF \E i \in 1..driver.image_count : wrapped[i].error # ""
        THEN SwapchainCall("Swapchain image wrapping failed", "", Some(info), None)
        ELSE IF driver.image_count > 0 /\ driver.create_full_view # "SUCCESS"
        THEN SwapchainCall("Swapchain image view creation failed", "", Some(info), None)
        ELSE SwapchainCall("", "", Some(info),
                           Some([handle |-> 1,
                                 images |-> images,
                                 views  |-> [i \in 1..driver.image_count |-> [image |-> i]],
                                 format |-> format,
                                 extent |-> info.image_extent]))

\* The devices and windows explored.
SurfaceFormats ==
    { SurfaceFormat("B8G8R8A8_SRGB", "SRGB_NONLINEAR"),
      SurfaceFormat("R8G8B8A8_UNORM", "SRGB_NONLINEAR"),
      SurfaceFormat("B8G8R8A8_SRGB", "DISPLAY_P3_NONLINEAR_EXT") }

MaxFormats == 2

MaxModes == 2

PresentModes == { "IMMEDIATE", "MAILBOX", "FIFO" }

CurrentExtents ==
    { Extent2D(800, 600), Extent2D(u32_MAX, u32_MAX),
      Extent2D(u32_MAX, 600), Extent2D(800, u32_MAX) }

Capabilities ==
    [current_extent   : CurrentExtents,
     min_image_extent : { Extent2D(200, 200) },
     max_image_extent : { Extent2D(4096, 4096) },
     min_image_count  : { 1, 2 },
     max_image_count  : { 0, 2, 3 }]

WindowSizes == { Extent2D(100, 5000), Extent2D(1024, 768), Extent2D(5000, 100) }

MkDevice(formats, modes, capabilities, present, window) ==
    [physical |-> [swapchain |-> [formats      |-> formats,
                                  modes        |-> modes,
                                  capabilities |-> capabilities],
                   families  |-> [graphics |-> 0, present |-> present]],
     window   |-> window]

\* Every format list with every mode list on one surface, and every surface
\* and window with one format list and one mode list.
Devices ==
    { MkDevice(formats, modes,
               [current_extent   |-> Extent2D(800, 600),
                min_image_extent |-> Extent2D(200, 200),
                max_image_extent |-> Extent2D(4096, 4096),
                min_image_count  |-> 2,
                max_image_count  |-> 0],
               0, Extent2D(1024, 768)) :
          formats \in SeqsUpTo(SurfaceFormats, MaxFormats),
          modes \in SeqsUpTo(PresentModes, MaxModes) }
    \cup
    { MkDevice(<< SurfaceFormat("R8G8B8A8_UNORM", "SRGB_NONLINEAR") >>, << "FIFO" >>,
               capabilities, present, window) :
          capabilities \in Capabilities, present \in { 0, 1 }, window \in WindowSizes }

VkErrors == { "ERROR_OUT_OF_DEVICE_MEMORY", "ERROR_SURFACE_LOST_KHR" }

DriverAnswers(num_images) ==
    [create_swapchain     : { "SUCCESS" } \cup VkErrors,
     get_swapchain_images : { "SUCCESS", "ERROR_OUT_OF_HOST_MEMORY" },
     image_count          : { num_images, num_images + 1 },
     create_full_view     : { "SUCCESS", "ERROR_OUT_OF_DEVICE_MEMORY" }]

(***************************************************************************)
(* ecs/mod.rs: World, Entity, EntityID and Component.  An EntityID is a    *)
(* number; Uuid::new_v4 is taken to return an id no entity of the world    *)
(* has, here the next number.                                              *)
(***************************************************************************)
MaxEntities == 3

MaxComponents == 2

Tag(value) == [variant |-> "Tag", value |-> value]

Position(x, y) == [variant |-> "Position", x |-> x, y |-> y]

Components == { Tag("a"), Position(1, 2) }

\* The types a caller may name as T.
ComponentTypes_T == { "Tag", "Position" }

Entity(id) == [id |-> id, components |-> << >>, children |-> << >>]

\* matches!(component, T) with T read as the path of the variant named.
matches_variant(component, T) == component.variant = T

\* matches!(component, T): T is an identifier pattern, it binds any value.
matches(component, T) == TRUE

\* Iterator::find: the place of the first item that is in the set accepted.
find(list, accepted) ==
    IF \E i \in DOMAIN list : list[i] \in accepted
    THEN Some(Least({i \in DOMAIN list : list[i] \in accepted}))
    ELSE None

\* The items of a list.
items_of(list) == { list[i] : i \in DOMAIN list }

get_component(self, T) ==
    LET found == find(self.components,
                      { component \in items_of(self.components) : matches(component, T) })
    IN  IF found = None THEN None ELSE Some(self.components[found[1]])

add_component(self, component) ==
    [self EXCEPT !.components = Append(@, component)]

\* An execute that falls back to the first entity when the id is not found.
execute_or_first(id, world, func) ==
    LET found == find(world.entities,
                      { entity \in items_of(world.entities) : entity.id = id })
    IN  IF found = None
        THEN IF world.entities = << >>
             THEN [result |-> None, world |-> world]
             ELSE [result |-> Some(<< >>),
                   world  |-> [world EXCEPT !.entities[1] = func[@]]]
        ELSE [result |-> Some(<< >>),
              world  |-> [world EXCEPT !.entities[found[1]] = func[@]]]

\* EntityID::execute: func applied to the first entity with the id.
execute(id, world, func) ==
    LET found == find(world.entities,
                      { entity \in items_of(world.entities) : entity.id = id })
    IN  IF found = None
        THEN [result |-> None, world |-> world]
        ELSE [result |-> Some(<< >>),
              world  |-> [world EXCEPT !.entities[found[1]] = func[@]]]

World_new == [entities |-> << >>]

\* World::new_entity, uuid being the value of Uuid::new_v4().
new_entity(world, parent, uuid) ==
    LET entity == Entity(uuid)
        push_child == [e \in items_of(world.entities) |->
                          [e EXCEPT !.children = Append(@, entity.id)]]
        linked == IF parent # None
                  THEN execute(parent[1], world, push_child).world
                  ELSE world
    IN  [world |-> [linked EXCEPT !.entities = Append(@, entity)],
         id    |-> entity.id]

\* Uuid::new_v4 for a world: an id none of its entities has.
new_v4(world) == Len(world.entities) + 1

\* An id that no entity of the world has or will have.
ForeignID == 0

\* The ids a caller may hold: of the entities of the world, or of none.
EntityIDs(world) == { world.entities[i].id : i \in DOMAIN world.entities } \cup { ForeignID }

\* The number of components in the world.
RECURSIVE Sum(_)
Sum(counts) == IF counts = << >> THEN 0 ELSE Head(counts) + Sum(Tail(counts))

component_count(world) ==
    Sum([i \in DOMAIN world.entities |-> Len(world.entities[i].components)])

(***************************************************************************)
(* renderer/mod.rs: the Renderer's draw list and framebuffer, and the      *)
(* commands end_frame records.  Whether a Vulkan call succeeds is chosen   *)
(* by the environment.                                                     *)
(***************************************************************************)
MaxCalls == 5

Triangle(buffer) == [kind |-> "Triangle", buffer |-> buffer]

DrawableMesh(buffer) == [kind |-> "Mesh", buffer |-> buffer]

Drawables == { Triangle("t"), DrawableMesh("m") }

Framebuffers == { "fb1", "fb2" }

UnwrapNone == "called Option::unwrap() on a None value"

UnwrapErr == "called Result::unwrap() on an Err value"

Command(op, object) == [op |-> op, object |-> object]

\* Drawable::draw for Triangle and for Mesh: the commands added to cmd.
draw(self) ==
    IF self.kind = "Triangle"
    THEN << Command("bind_material", self.buffer),
            Command("bind_vertex_buffers", self.buffer),
            Command("draw", self.buffer) >>
    ELSE << Command("bind_material", self.buffer),
            Command("bind_index_buffer", self.buffer),
            Command("bind_vertex_buffers", self.buffer),
            Command("draw_indexed", self.buffer) >>

\* Renderer::new: what the claims are about, the draw list and the framebuffer.
Renderer_new == [draw_list |-> << >>, framebuffer |-> None]

\* A new_frame that keeps the draw list.
new_frame_keeping(self, framebuffer) ==
    [self EXCEPT !.framebuffer = Some(framebuffer)]

new_frame(self, framebuffer) ==
    [self EXCEPT !.draw_list = << >>, !.framebuffer = Some(framebuffer)]

add(self, drawable) ==
    [self EXCEPT !.draw_list = Append(@, drawable)]

RECURSIVE draw_all(_)
draw_all(draw_list) ==
    IF draw_list = << >> THEN << >>
    ELSE draw(Head(draw_list)) \o draw_all(Tail(draw_list))

\* The answers of Vulkan to end_frame: whether the builder is created, the
\* render pass begins and ends, and the first draw that fails (0: none).
VulkanAnswers(draw_list) ==
    [primary : BOOLEAN, begin_render_pass : BOOLEAN,
     failing_draw : 0..Len(draw_list), end_render_pass : BOOLEAN]

\* Renderer::end_frame: the panic, or the command buffer; self as it is left.
end_frame(self, vulkan) ==
    IF ~vulkan.primary
    THEN [panic |-> UnwrapErr, command |-> << >>, self |-> self]
    ELSE IF self.framebuffer = None
    THEN [panic |-> UnwrapNone, command |-> << >>, self |-> self]
    ELSE IF ~vulkan.begin_render_pass
    THEN [panic |-> UnwrapErr, command |-> << >>, self |-> self]
    ELSE IF vulkan.failing_draw # 0
    THEN [panic |-> UnwrapErr, command |-> << >>, self |-> self]
    ELSE IF ~vulkan.end_render_pass
    THEN [panic |-> UnwrapErr, command |-> << >>, self |-> self]
    ELSE [panic   |-> "",
          command |-> << Command("begin_render_pass", self.framebuffer[1]),
                         Command("bind_pipeline_graphics", "render_pipeline"),
                         Command("set_viewport", "inner_size") >>
                      \o draw_all(self.draw_list)
                      \o << Command("end_render_pass", self.framebuffer[1]) >>,
          self    |-> self]

(***************************************************************************)
(* arbiter/src/main.rs: the closure given to event_loop.run, over the      *)
(* locals it captures.  The window's size and the answers of Vulkan are    *)
(* chosen by the environment.                                              *)
(***************************************************************************)
MaxEvents == 6

InnerSizes == { Extent2D(800, 600), Extent2D(1024, 768) }

\* A GraphicsPipeline, known by the viewport it was built for.
Pipeline(viewport) == [viewport |-> viewport]

\* The calls of get_pipeline that the code panics on when they fail.
PipelineSteps ==
    { "vs::load", "fs::load", "entry_point_vertex", "entry_point_fragment",
      "subpass", "pipeline" }

\* The answers of Vulkan during one MainEventsCleared or one get_pipeline:
\* the step that fails with an error the code panics on ("": none), what
\* acquire_next_image returns and what then_signal_fence_and_flush returns.
VulkanSteps ==
    { "", "recreate", "acquire", "builder", "view", "framebuffer", "begin_render_pass",
      "draw", "end_render_pass", "build", "execute", "wait" } \cup PipelineSteps

FrameAnswers ==
    [fails : VulkanSteps, acquire : { "Ok", "Suboptimal", "OutOfDate" },
     flush : { "Ok", "OutOfDate", "Error" }]

AllOk == [fails |-> "", acquire |-> "Ok", flush |-> "Ok"]

\* get_pipeline, lines 64-89: the panic of the step that fails, or the
\* pipeline built for the viewport.
get_pipeline(viewport, vulkan) ==
    IF vulkan.fails \in PipelineSteps
    THEN [panic |-> vulkan.fails, pipeline |-> None]
    ELSE [panic |-> "", pipeline |-> Some(Pipeline(viewport))]

\* main, lines 136-145: the locals as the event loop starts, after a
\* start-up without a panic.  The swapchain has the size the window had
\* when the context was created, the viewport the size it has at line 139.
main_locals(swapchain_size, inner_size) ==
    [recreate_swapchain |-> FALSE,
     window_resized     |-> FALSE,
     viewport           |-> inner_size,
     pipeline           |-> get_pipeline(inner_size, AllOk).pipeline[1],
     swapchain          |-> swapchain_size]

\* WindowEvent::Resized(_).
resized(locals) ==
    [locals EXCEPT !.recreate_swapchain = TRUE, !.window_resized = TRUE]

\* The outcome of a handler: the locals, the panic, the frame drawn and
\* the viewport get_pipeline was called with (None: it was not called).
Handled(locals, panic, frame) ==
    [locals |-> locals, panic |-> panic, frame |-> frame, rebuilt |-> None]

\* The steps from the command buffer builder to the present, lines 213-283:
\* frame is the draw recorded, with the pipeline bound.
draw_and_present(locals, vulkan) ==
    LET frame == [pipeline |-> locals.pipeline, swapchain |-> locals.swapchain,
                  presented |-> /\ vulkan.fails \notin { "end_render_pass", "build", "execute" }
                                /\ vulkan.flush = "Ok"]
    IN  IF vulkan.fails \in { "builder", "view", "framebuffer", "begin_render_pass", "draw" }
        THEN Handled(locals, vulkan.fails, None)
        ELSE IF vulkan.fails \in { "end_render_pass", "build", "execute" }
        THEN Handled(locals, vulkan.fails, Some(frame))
        ELSE IF vulkan.flush = "OutOfDate"
        THEN Handled([locals EXCEPT !.recreate_swapchain = TRUE], "", Some(frame))
        ELSE IF vulkan.flush = "Error"
        THEN Handled(locals, "", Some(frame))
        ELSE IF vulkan.fails = "wait"
        THEN Handled(locals, "wait", Some(frame))
        ELSE Handled(locals, "", Some(frame))

\* A handler that draws whether or not the swapchain was recreated.
main_events_cleared_always(locals, window, vulkan) ==
    draw_and_present(locals, vulkan)

\* Event::MainEventsCleared, lines 172-285.  window holds the answers of
\* window().inner_size(): at_recreate at line 175, at_viewport at line 191.
main_events_cleared(locals, window, vulkan) ==
    IF ~locals.recreate_swapchain
    THEN Handled(locals, "", None)
    ELSE IF vulkan.fails = "recreate"
    THEN Handled([locals EXCEPT !.recreate_swapchain = FALSE], "recreate", None)
    ELSE LET recreated == [locals EXCEPT !.recreate_swapchain = FALSE,
                                         !.swapchain = window.at_recreate]
             built     == get_pipeline(window.at_viewport, vulkan)
             sized     == [recreated EXCEPT !.window_resized = FALSE,
                                            !.viewport = window.at_viewport]
             rebuilt   == IF recreated.window_resized
                          THEN [sized EXCEPT !.pipeline = built.pipeline[1]]
                          ELSE recreated
             after     == IF vulkan.acquire = "OutOfDate"
                          THEN Handled([rebuilt EXCEPT !.recreate_swapchain = TRUE], "", None)
                          ELSE IF vulkan.fails = "acquire"
                          THEN Handled(rebuilt, "acquire", None)
                          ELSE IF vulkan.acquire = "Suboptimal"
                          THEN draw_and_present([rebuilt EXCEPT !.recreate_swapchain = TRUE],
                                                vulkan)
                          ELSE draw_and_present(rebuilt, vulkan)
         IN  IF recreated.window_resized /\ built.panic # ""
             THEN Handled(sized, built.panic, None)
             ELSE [after EXCEPT !.rebuilt = IF recreated.window_resized
                                            THEN Some(rebuilt.viewport) ELSE None]

(***************************************************************************)
(* The state machine.                                                      *)
(***************************************************************************)
VARIABLES
    input,      \* the description the file was built from
    json_doc,   \* the document TextA deserializes to
    file,       \* the bytes of the file (the Cursor's data)
    pos,        \* the Cursor's position
    pc,         \* "header", "chunks", "loaded", "failed", "panicked"
    chunks,     \* the GlbChunks read so far
    error,      \* the error load returned ("": none); in SpecOld, the panic
    self,       \* the aggregate load returned: None, or Some(Gltf)
    ret,        \* the last load_accessor_data call: None, or Some(call)
    addr,       \* the address of the aggregate's buffer, modulo 4
    out,        \* the last to_meshes call: None, or Some(call)
    old,        \* the older revision's aggregate under construction, or None
    device,     \* a vulkan Device and its window: None, or Some(record)
    created,    \* the last create_swapchain call: None, or Some(call)
    world,      \* an ecs World: None, or Some(World)
    ecs_call,   \* the last call on the World or an Entity: None, or Some(call)
    renderer,   \* a Renderer (draw list and framebuffer): None, or Some(record)
    recorded,   \* the calls made on the renderer, in order, with their outcomes
    arbiter     \* the locals of arbiter's main and its log: None, or Some(record)

\* The variables of the GLB loader, and those of the rest of the engine.
glb_vars == << input, json_doc, file, pos, pc, chunks, error, self, ret, addr, out, old >>
engine_vars == << device, created, world, ecs_call, renderer, recorded, arbiter >>
vars == << glb_vars, engine_vars >>

\* No engine object exists.
NoEngine ==
    /\ device = << >>
    /\ created = << >>
    /\ world = << >>
    /\ ecs_call = << >>
    /\ renderer = << >>
    /\ recorded = << >>
    /\ arbiter = << >>

Init ==
    /\ \/ /\ input \in WholeInputs \cup TailInputs
          /\ json_doc = DocA
          /\ addr = 0
       \/ /\ input = PlainInput
          /\ json_doc \in AccessorDocs \cup GraphDocs \cup BufferDocs
          /\ addr = 0
       \/ /\ input = MeshInput
          /\ json_doc \in MeshDocs
          /\ addr \in BufferAddresses
    /\ file = FileBytes(input)
    /\ pos = 0
    /\ pc = "header"
    /\ chunks = << >>
    /\ error = ""
    /\ self = None
    /\ ret = None
    /\ out = None
    /\ old = None
    /\ NoEngine

Fail(kind, at) ==
    /\ pc' = "failed"
    /\ error' = kind
    /\ pos' = at
    /\ UNCHANGED << input, json_doc, file, chunks, self, ret, addr, out, old, engine_vars >>

\* mod.rs 47-62: the three header words and the two checks.
LoadHeader ==
    /\ pc = "header"
    /\ LET magic == read_u32(file, pos)
           version == read_u32(file, magic.pos)
           length == read_u32(file, version.pos)
       IN  IF ~magic.ok \/ ~version.ok \/ ~length.ok
           THEN Fail("UnexpectedEof", Len(file))
           ELSE IF header_error(magic.value, version.value, length.value) # ""
           THEN Fail(header_error(magic.value, version.value, length.value),
                     length.pos)
           ELSE /\ pc' = "chunks"
                /\ pos' = length.pos
                /\ UNCHANGED << input, json_doc, file, chunks, error, self, ret, addr, out, old, engine_vars >>

\* mod.rs 66-80: one iteration of the chunk loop.
LoadChunk ==
    /\ pc = "chunks"
    /\ read_u32(file, pos).ok
    /\ LET chunk_length == read_u32(file, pos)
           chunk_type == read_u32(file, chunk_length.pos)
           chunk_data == read_exact(file, chunk_type.pos, chunk_length.value)
           known == GlbChunkType_from_u32(chunk_type.value)
       IN  IF ~chunk_type.ok THEN Fail("UnexpectedEof", chunk_type.pos)
           ELSE IF ~chunk_data.ok THEN Fail("UnexpectedEof", chunk_data.pos)
           ELSE IF known = None THEN Fail("ChunkType", chunk_data.pos)
           ELSE /\ chunks' = Append(chunks, [chunk_type |-> known[1],
                                             data |-> chunk_data.bytes])
                /\ pos' = chunk_data.pos
                /\ UNCHANGED << input, json_doc, file, pc, error, self, ret, addr, out, old, engine_vars >>

\* A loop that propagated a failed read of a partial length word.
LoadFinishStrict ==
    /\ pc = "chunks"
    /\ ~read_u32(file, pos).ok
    /\ IF pos < Len(file)
       THEN Fail("UnexpectedEof", Len(file))
       ELSE /\ LET r == load_finish(chunks, json_doc)
               IN  /\ pc' = IF r.error = "" THEN "loaded" ELSE "failed"
                   /\ error' = r.error
                   /\ self' = r.self
            /\ pos' = read_u32(file, pos).pos
            /\ UNCHANGED << input, json_doc, file, chunks, ret, addr, out, old, engine_vars >>

\* mod.rs 66, 82-95: the loop ends at the first length word that cannot be
\* read, and the two chunks are looked up.
LoadFinish ==
    /\ pc = "chunks"
    /\ ~read_u32(file, pos).ok
    /\ LET r == load_finish(chunks, json_doc)
       IN  /\ pc' = IF r.error = "" THEN "loaded" ELSE "failed"
           /\ error' = r.error
           /\ self' = r.self
    /\ pos' = read_u32(file, pos).pos
    /\ UNCHANGED << input, json_doc, file, chunks, ret, addr, out, old, engine_vars >>

\* mod.rs 99-106: a call of load_accessor_data on the loaded aggregate, with
\* any reference up to the first one past the accessor table.  A panic ends
\* the program.
\* (Variant: a call that takes the returned bytes out of the buffer.)
LoadAccessorDataDraining ==
    /\ pc = "loaded"
    /\ \E accessor_ref \in 0..Len(self[1].gltf.accessors) :
          LET r == load_accessor_data(self[1], accessor_ref)
          IN  /\ ret' = Some([accessor_ref |-> accessor_ref, panic |-> r.panic,
                              data |-> r.data, offset |-> r.offset,
                              length |-> r.length])
              /\ pc' = IF r.panic = "" THEN "loaded" ELSE "panicked"
              /\ self' = IF r.panic # "" THEN self
                         ELSE Some([self[1] EXCEPT !.buffer =
                                      SubSeq(@, 1, r.offset)
                                        \o SubSeq(@, r.offset + r.length + 1, Len(@))])
    /\ UNCHANGED << input, json_doc, file, pos, chunks, error, addr, out, old, engine_vars >>

LoadAccessorData ==
    /\ pc = "loaded"
    /\ \E accessor_ref \in 0..Len(self[1].gltf.accessors) :
          LET r == load_accessor_data(self[1], accessor_ref)
          IN  /\ ret' = Some([accessor_ref |-> accessor_ref, panic |-> r.panic,
                              data |-> r.data, offset |-> r.offset,
                              length |-> r.length])
              /\ pc' = IF r.panic = "" THEN "loaded" ELSE "panicked"
    /\ UNCHANGED << input, json_doc, file, pos, chunks, error, self, addr, out, old, engine_vars >>

\* mod.rs 111-144: a call of to_meshes on the loaded aggregate.  A panic
\* ends the program.
ToMeshes ==
    /\ pc = "loaded"
    /\ LET r == to_meshes(self[1], addr)
       IN  /\ out' = Some(r)
           /\ pc' = IF r.panic = "" THEN "loaded" ELSE "panicked"
    /\ UNCHANGED << input, json_doc, file, pos, chunks, error, self, ret, addr, old, engine_vars >>

Next ==
    \/ LoadHeader
    \/ LoadChunk
    \/ LoadFinish
    \/ LoadAccessorData
    \/ ToMeshes

Spec == Init /\ [][Next]_vars

(***************************************************************************)
(* The older revision's Gltf::load (fs/gltf.rs), from the point where the  *)
(* two chunks have been read.                                              *)
(***************************************************************************)
\* The state of Gltf::load once the two chunks have been read: the document
\* is deserialized and the binary chunk's data is in hand.
InitOld ==
    /\ input = PlainInput
    /\ json_doc \in OldDocs
    /\ file = FileBytes(input)
    /\ pos = Len(file)
    /\ pc = "old_buffers"
    /\ chunks = << >>
    /\ error = ""
    /\ self = None
    /\ ret = None
    /\ addr = 0
    /\ out = None
    /\ old = None
    /\ NoEngine

OldStep(next, value) ==
    /\ pc' = next
    /\ old' = Some(value)
    /\ UNCHANGED << input, json_doc, file, pos, chunks, error, self, ret, addr, out, engine_vars >>

OldPanic(message) ==
    /\ pc' = "panicked"
    /\ error' = message
    /\ UNCHANGED << input, json_doc, file, pos, chunks, self, ret, addr, out, old, engine_vars >>

\* gltf.rs 334-341: the aggregate is created around the unwrapped buffer.
OldLoadBuffers ==
    /\ pc = "old_buffers"
    /\ LET r == unwrap(load_buffers(input.chunks[2].body, json_doc))
       IN  IF r.panic # "" THEN OldPanic(r.panic)
           ELSE OldStep("old_buffer_views",
                        [accessors |-> << >>, buffer |-> r.buffer[1],
                         buffer_views |-> << >>, meshes |-> << >>, nodes |-> << >>,
                         scenes |-> << >>])

\* gltf.rs 343, 365-375.
OldLoadBufferViews ==
    /\ pc = "old_buffer_views"
    /\ OldStep("old_accessors",
               [old[1] EXCEPT !.buffer_views =
                   [i \in DOMAIN json_doc.buffer_views |->
                       [buffer |-> json_doc.buffer_views[i].buffer,
                        length |-> json_doc.buffer_views[i].byte_length,
                        offset |-> json_doc.buffer_views[i].byte_offset]]])

\* gltf.rs 344, 377-390: one iteration of the loop, or its end.
OldLoadAccessors ==
    /\ pc = "old_accessors"
    /\ LET done == Len(old[1].accessors)
       IN  IF done = Len(json_doc.accessors) THEN OldStep("old_meshes", old[1])
           ELSE LET r == load_accessor(json_doc.accessors[done + 1])
                IN  IF r.panic # "" THEN OldPanic(r.panic)
                    ELSE OldStep("old_accessors",
                                 [old[1] EXCEPT !.accessors = Append(@, r.accessor[1])])

\* gltf.rs 345, 392-409.
OldLoadMeshes ==
    /\ pc = "old_meshes"
    /\ OldStep("old_nodes",
               [old[1] EXCEPT !.meshes =
                   [i \in DOMAIN json_doc.meshes |->
                       [primitives |->
                           [j \in DOMAIN json_doc.meshes[i].primitives |->
                               [attributes |->
                                   [position |->
                                       json_doc.meshes[i].primitives[j].attributes.position],
                                indices |-> json_doc.meshes[i].primitives[j].indices]]]]])

\* gltf.rs 346, 411-425: one iteration of the loop, or its end.
OldLoadNodes ==
    /\ pc = "old_nodes"
    /\ LET done == Len(old[1].nodes)
       IN  IF done = Len(json_doc.nodes) THEN OldStep("old_scenes", old[1])
           ELSE OldStep("old_nodes",
                        [old[1] EXCEPT !.nodes = Append(@, load_node(json_doc.nodes[done + 1]))])

\* gltf.rs 347-349, 427-439: the scenes, and Ok(gltf).
OldLoadScenes ==
    /\ pc = "old_scenes"
    /\ OldStep("old_loaded", [old[1] EXCEPT !.scenes = json_doc.scenes])

NextOld ==
    \/ OldLoadBuffers
    \/ OldLoadBufferViews
    \/ OldLoadAccessors
    \/ OldLoadMeshes
    \/ OldLoadNodes
    \/ OldLoadScenes

SpecOld == InitOld /\ [][NextOld]_vars

(***************************************************************************)
(* vulkan/device.rs as a state machine: a device and a window exist, and   *)
(* create_swapchain is called on them.                                     *)
(***************************************************************************)
\* The GLB loader is not running.
NoGlb ==
    /\ input = PlainInput
    /\ json_doc = DocA
    /\ file = << >>
    /\ pos = 0
    /\ pc = "idle"
    /\ chunks = << >>
    /\ error = ""
    /\ self = None
    /\ ret = None
    /\ addr = 0
    /\ out = None
    /\ old = None

InitDevice ==
    /\ NoGlb
    /\ device \in { Some(x) : x \in Devices }
    /\ created = None
    /\ world = None
    /\ ecs_call = None
    /\ renderer = None
    /\ recorded = None
    /\ arbiter = None

CreateSwapchain ==
    /\ device # None
    /\ created = None
    /\ \E driver \in DriverAnswers(choose_num_images(device[1].physical.swapchain.capabilities)) :
           created' = Some(create_swapchain(device[1], device[1].window, driver))
    /\ UNCHANGED << glb_vars, device, world, ecs_call, renderer, recorded, arbiter >>

NextDevice == CreateSwapchain

SpecDevice == InitDevice /\ [][NextDevice]_vars

(***************************************************************************)
(* ecs/mod.rs as a state machine: a World, to which entities are added,    *)
(* and whose entities get components and are asked for them.               *)
(***************************************************************************)
InitWorld ==
    /\ NoGlb
    /\ device = None
    /\ created = None
    /\ world = Some(World_new)
    /\ ecs_call = None
    /\ renderer = None
    /\ recorded = None
    /\ arbiter = None

NewEntity ==
    /\ world # None
    /\ Len(world[1].entities) < MaxEntities
    /\ \E parent \in {None} \cup {Some(id) : id \in EntityIDs(world[1])} :
          LET r == new_entity(world[1], parent, new_v4(world[1]))
          IN  /\ world' = Some(r.world)
              /\ ecs_call' = Some([op |-> "new_entity", parent |-> parent, id |-> r.id])
    /\ UNCHANGED << glb_vars, device, created, renderer, recorded, arbiter >>

AddComponent ==
    /\ world # None
    /\ \E i \in DOMAIN world[1].entities, component \in Components :
          /\ component_count(world[1]) < MaxComponents
          /\ world' = Some([world[1] EXCEPT !.entities[i] = add_component(@, component)])
          /\ ecs_call' = Some([op |-> "add_component", entity |-> i,
                               component |-> component])
    /\ UNCHANGED << glb_vars, device, created, renderer, recorded, arbiter >>

GetComponent ==
    /\ world # None
    /\ \E i \in DOMAIN world[1].entities, T \in ComponentTypes_T :
          ecs_call' = Some([op |-> "get_component", entity |-> i, T |-> T,
                            result |-> get_component(world[1].entities[i], T)])
    /\ UNCHANGED << glb_vars, device, created, world, renderer, recorded, arbiter >>

NextWorld ==
    \/ NewEntity
    \/ AddComponent
    \/ GetComponent

SpecWorld == InitWorld /\ [][NextWorld]_vars

(***************************************************************************)
(* renderer/mod.rs as a state machine: a Renderer, on which new_frame, add *)
(* and end_frame are called in any order until one panics.                 *)
(***************************************************************************)
InitRenderer ==
    /\ NoGlb
    /\ device = None
    /\ created = None
    /\ world = None
    /\ ecs_call = None
    /\ renderer = Some(Renderer_new)
    /\ recorded = << >>
    /\ arbiter = None

\* The renderer exists and no call on it has panicked.
RendererRuns ==
    /\ renderer # None
    /\ Len(recorded) < MaxCalls
    /\ recorded # << >> => recorded[Len(recorded)].panic = ""

NewFrame ==
    /\ RendererRuns
    /\ \E framebuffer \in Framebuffers :
          /\ renderer' = Some(new_frame(renderer[1], framebuffer))
          /\ recorded' = Append(recorded, [op |-> "new_frame", panic |-> "",
                                           framebuffer |-> framebuffer])
    /\ UNCHANGED << glb_vars, device, created, world, ecs_call, arbiter >>

Add ==
    /\ RendererRuns
    /\ \E drawable \in Drawables :
          /\ renderer' = Some(add(renderer[1], drawable))
          /\ recorded' = Append(recorded, [op |-> "add", panic |-> "",
                                           drawable |-> drawable])
    /\ UNCHANGED << glb_vars, device, created, world, ecs_call, arbiter >>

EndFrame ==
    /\ RendererRuns
    /\ \E vulkan \in VulkanAnswers(renderer[1].draw_list) :
          LET r == end_frame(renderer[1], vulkan)
          IN  /\ renderer' = Some(r.self)
              /\ recorded' = Append(recorded, [op |-> "end_frame", panic |-> r.panic,
                                               command |-> r.command,
                                               primary |-> vulkan.primary])
    /\ UNCHANGED << glb_vars, device, created, world, ecs_call, arbiter >>

NextRenderer ==
    \/ NewFrame
    \/ Add
    \/ EndFrame

SpecRenderer == InitRenderer /\ [][NextRenderer]_vars

(***************************************************************************)
(* arbiter/src/main.rs as a state machine: events are handled one at a     *)
(* time until the loop exits or a handler panics.  Beside the locals, the  *)
(* record keeps what the properties speak about: the number of events      *)
(* handled, the last event, whether a Resized event was ever handled,      *)
(* whether one was handled since get_pipeline was last called, the last    *)
(* call of get_pipeline by a handler, the number of frames drawn and the   *)
(* last frame.                                                             *)
(***************************************************************************)
InitArbiter ==
    /\ NoGlb
    /\ device = None
    /\ created = None
    /\ world = None
    /\ ecs_call = None
    /\ renderer = None
    /\ recorded = None
    /\ \E swapchain_size \in InnerSizes, inner_size \in InnerSizes :
          arbiter = Some([locals       |-> main_locals(swapchain_size, inner_size),
                          inner_size   |-> inner_size,
                          control_flow |-> "Poll",
                          panic        |-> "",
                          events       |-> 0,
                          event        |-> "",
                          resized      |-> FALSE,
                          stale        |-> FALSE,
                          rebuilt      |-> None,
                          frames       |-> 0,
                          frame        |-> None])

\* The event loop is running.
ArbiterRuns ==
    /\ arbiter # None
    /\ arbiter[1].control_flow = "Poll"
    /\ arbiter[1].panic = ""
    /\ arbiter[1].events < MaxEvents

\* The record after an event that leaves the locals alone.
Handle(event) == [arbiter[1] EXCEPT !.events = @ + 1, !.event = event]

\* The user or the system gives the window another size.
WindowChanges ==
    /\ ArbiterRuns
    /\ \E inner_size \in InnerSizes \ { arbiter[1].inner_size } :
          arbiter' = Some([arbiter[1] EXCEPT !.inner_size = inner_size])
    /\ UNCHANGED << glb_vars, device, created, world, ecs_call, renderer, recorded >>

CloseRequested ==
    /\ ArbiterRuns
    /\ arbiter' = Some([Handle("CloseRequested") EXCEPT !.control_flow = "Exit"])
    /\ UNCHANGED << glb_vars, device, created, world, ecs_call, renderer, recorded >>

Resized ==
    /\ ArbiterRuns
    /\ arbiter' = Some([Handle("Resized") EXCEPT !.locals = resized(@),
                                                 !.resized = TRUE,
                                                 !.stale = TRUE])
    /\ UNCHANGED << glb_vars, device, created, world, ecs_call, renderer, recorded >>

\* DeviceEvent::Key: Escape pressed exits, any other key changes nothing.
Key ==
    /\ ArbiterRuns
    /\ \E escape_pressed \in BOOLEAN :
          arbiter' = Some([Handle("Key") EXCEPT !.control_flow =
                              IF escape_pressed THEN "Exit" ELSE "Poll"])
    /\ UNCHANGED << glb_vars, device, created, world, ecs_call, renderer, recorded >>

\* The window may get another size between the two reads of its size.
MainEventsCleared ==
    /\ ArbiterRuns
    /\ \E vulkan \in FrameAnswers, at_viewport \in InnerSizes :
          LET window == [at_recreate |-> arbiter[1].inner_size,
                         at_viewport |-> at_viewport]
              r == main_events_cleared(arbiter[1].locals, window, vulkan)
              read_again == /\ arbiter[1].locals.recreate_swapchain
                            /\ arbiter[1].locals.window_resized
                            /\ vulkan.fails # "recreate"
              rebuilt == IF r.rebuilt = None THEN arbiter[1].rebuilt
                         ELSE Some([viewport   |-> r.rebuilt[1],
                                    inner_size |-> at_viewport])
          IN  arbiter' = Some([Handle("MainEventsCleared") EXCEPT
                  !.locals     = r.locals,
                  !.inner_size = IF read_again THEN at_viewport ELSE @,
                  !.panic      = r.panic,
                  !.stale      = IF r.rebuilt # None THEN FALSE ELSE @,
                  !.rebuilt    = rebuilt,
                  !.frames     = IF r.frame # None THEN @ + 1 ELSE @,
                  !.frame      = IF r.frame = None THEN @
                                 ELSE Some([pipeline  |-> r.frame[1].pipeline,
                                            swapchain |-> r.frame[1].swapchain,
                                            presented |-> r.frame[1].presented,
                                            on_entry  |-> arbiter[1].locals.recreate_swapchain,
                                            rebuilt   |-> rebuilt,
                                            stale     |-> arbiter[1].stale /\ r.rebuilt = None])])
    /\ UNCHANGED << glb_vars, device, created, world, ecs_call, renderer, recorded >>

\* Any other event: the arm _ => ().
OtherEvent ==
    /\ ArbiterRuns
    /\ arbiter' = Some(Handle("Other"))
    /\ UNCHANGED << glb_vars, device, created, world, ecs_call, renderer, recorded >>

NextArbiter ==
    \/ WindowChanges
    \/ CloseRequested
    \/ Resized
    \/ Key
    \/ MainEventsCleared
    \/ OtherEvent

SpecArbiter == InitArbiter /\ [][NextArbiter]_vars

(***************************************************************************)
(* Vocabulary of the properties: what the input file holds, read off its   *)
(* description, and what a call was about.                                 *)
(***************************************************************************)
Returned == pc \in {"loaded", "failed", "panicked"}
Loaded == pc \in {"loaded", "panicked"}

HasWord(k) == Len(file) >= 4 * k
Word(k) == from_le_bytes(SubSeq(file, 4 * k - 3, 4 * k))

GoodHeader == input.magic = GLB_MAGIC /\ input.version = 2
InputTypes == {input.chunks[i].type : i \in DOMAIN input.chunks}
InputCount(type) == Cardinality({i \in DOMAIN input.chunks : input.chunks[i].type = type})

RECURSIVE FirstBody(_, _)
FirstBody(cs, type) ==
    IF cs = << >> THEN None
    ELSE IF Head(cs).type = type THEN Some(Head(cs).body)
    ELSE FirstBody(Tail(cs), type)

\* The document a JSON text denotes, if it is a JSON text.
TextDoc(text) ==
    IF text = TextA THEN Some(json_doc) ELSE IF text = TextB THEN Some(DocB) ELSE None

\* The table of the glTF specification.
TableComponentWidth ==
    5120 :> 1 @@ 5121 :> 1 @@ 5122 :> 2 @@ 5123 :> 2 @@ 5125 :> 4 @@ 5126 :> 4
TableElementWidth ==
    "SCALAR" :> 1 @@ "VEC2" :> 2 @@ "VEC3" :> 3 @@ "VEC4" :> 4 @@ "MAT2" :> 4
        @@ "MAT3" :> 9 @@ "MAT4" :> 16
TableLength(a) ==
    TableComponentWidth[a.component_type] * TableElementWidth[a.element_type] * a.count

Called == ret # None
Call == ret[1]
\* The call named an accessor of the table, and that accessor names a buffer
\* view of the table.
CallResolves ==
    /\ Called
    /\ Call.accessor_ref < Len(self[1].gltf.accessors)
    /\ self[1].gltf.accessors[Call.accessor_ref + 1].buffer_view
          < Len(self[1].gltf.buffer_views)
CallAccessor == self[1].gltf.accessors[Call.accessor_ref + 1]
CallView == self[1].gltf.buffer_views[CallAccessor.buffer_view + 1]
CallTyped ==
    /\ CallAccessor.component_type \in DOMAIN TableComponentWidth
    /\ CallAccessor.element_type \in DOMAIN TableElementWidth
CallStart == CallAccessor.byte_offset + CallView.byte_offset
CallEnd == CallStart + TableLength(CallAccessor)
Payload == FirstBody(input.chunks, Binary)[1]

(***************************************************************************)
(* C1.  A file whose first word is not the magic number, or whose second   *)
(* word is not 2, fails to load, no chunk is parsed, and the error is the  *)
(* magic/version error.                                                    *)
(*                                                                         *)
(* C1_Original states it for every such file and fails on a file shorter   *)
(* than its 12-byte header: the three words are read before either check,  *)
(* so the error is the read error.  C1_Header is the claim for files with  *)
(* a whole header, with the read error for the shorter ones.               *)
(***************************************************************************)
BadHeaderWords ==
    \/ HasWord(1) /\ Word(1) # GLB_MAGIC
    \/ HasWord(2) /\ Word(2) # 2

NoChunkParsed == chunks = << >> /\ pos <= 12

C1_Original ==
    (Returned /\ BadHeaderWords) =>
        /\ pc = "failed" /\ self = None
        /\ NoChunkParsed
        /\ error \in {"Magic", "Version"}

C1_Header ==
    /\ (Returned /\ BadHeaderWords /\ HasWord(3)) =>
          /\ pc = "failed" /\ self = None
          /\ NoChunkParsed
          /\ error = IF Word(1) # GLB_MAGIC THEN "Magic" ELSE "Version"
    /\ (Returned /\ ~HasWord(3)) =>
          /\ pc = "failed" /\ self = None
          /\ NoChunkParsed
          /\ error = "UnexpectedEof"
    /\ (pc = "chunks" \/ Loaded) => (HasWord(3) /\ ~BadHeaderWords)

\* A bad version in front of an unknown chunk and a truncated one.
C1_Witness ==
    /\ pc = "failed" /\ error = "Version"
    /\ input.magic = GLB_MAGIC
    /\ input.chunks = << ChunkUnknown, ChunkBadJson >>
    /\ pos = 12

(***************************************************************************)
(* C2.  For an accessor whose byte range lies in the binary payload,       *)
(* load_accessor_data returns exactly the payload's bytes at               *)
(* [byteOffset + view.byteOffset, that + length), and whatever it returns  *)
(* is that range of the payload.                                           *)
(***************************************************************************)
C2_RoundTrip ==
    /\ (CallResolves /\ CallTyped /\ CallEnd <= Len(Payload)) =>
          /\ Call.panic = ""
          /\ Call.data = SubSeq(Payload, CallStart + 1, CallEnd)
    /\ (Called /\ Call.panic = "") =>
          /\ CallResolves /\ CallTyped
          /\ Call.data = [i \in 1..TableLength(CallAccessor) |-> Payload[CallStart + i]]

C2_Witness ==
    /\ CallResolves
    /\ Call.panic = ""
    /\ CallAccessor.byte_offset = 2 /\ CallView.byte_offset = 1
    /\ Call.data = << 13, 14, 15, 16, 17, 18, 19, 20 >>

(***************************************************************************)
(* C3.  For each of the 6 component types, each of the 7 element types     *)
(* and each count n, the computed byte length is width x components x n    *)
(* (in both revisions of the loader).                                      *)
(***************************************************************************)
C3_Length ==
    (CallResolves /\ CallTyped) =>
        /\ Call.length = TableLength(CallAccessor)
        /\ AccessorRef_get_data_length(CallAccessor).panic = ""
        /\ AccessorRef_get_data_length(CallAccessor).value = TableLength(CallAccessor)

C3_Witness ==
    /\ CallResolves
    /\ CallAccessor.element_type = "MAT3" /\ CallAccessor.component_type = 5123
    /\ CallAccessor.count = 3
    /\ Call.length = 54

(***************************************************************************)
(* C4.  An accessor with an unknown component type or element type yields  *)
(* an error value, never a panic, and no byte length.                      *)
(*                                                                         *)
(* C4_Original fails: the default arms of get_accessor_length panic.       *)
(* C4_Panics: the call panics with the message of the bad type (the        *)
(* element type first), and no length and no bytes are produced; the older *)
(* revision's conversions panic as well.                                   *)
(***************************************************************************)
C4_Original ==
    (CallResolves /\ ~CallTyped) =>
        /\ Call.panic = "" /\ pc # "panicked"
        /\ Call.length = -1

C4_Panics ==
    (CallResolves /\ ~CallTyped) =>
        /\ pc = "panicked"
        /\ Call.panic =
              IF CallAccessor.element_type \notin DOMAIN TableElementWidth
              THEN "Invalid glTF accessor element type"
              ELSE "Invalid glTF accessor component type"
        /\ Call.length = -1 /\ Call.data = << >>
        /\ AccessorRef_get_data_length(CallAccessor).panic # ""

C4_Witness ==
    /\ CallResolves
    /\ CallAccessor.component_type = 5124 /\ CallAccessor.element_type = "VEC3"
    /\ CallAccessor.count = 1
    /\ pc = "panicked"

(***************************************************************************)
(* C5.  When offset + length exceeds the buffer, load_accessor_data        *)
(* reports an error value; it neither panics nor returns bytes from        *)
(* outside the buffer.                                                     *)
(*                                                                         *)
(* C5_Original fails: the slice expression panics.  C5_SlicePanics: the    *)
(* call panics on the slice, returns nothing, and no call ever returns     *)
(* bytes that are not the buffer's.                                        *)
(***************************************************************************)
CallOutOfBounds == CallResolves /\ CallTyped /\ CallEnd > Len(self[1].buffer)

C5_Original ==
    CallOutOfBounds => (Call.panic = "" /\ pc # "panicked" /\ Call.data = << >>)

C5_SlicePanics ==
    /\ CallOutOfBounds =>
          /\ pc = "panicked"
          /\ Call.panic = "range end index out of range for slice"
          /\ Call.data = << >>
    /\ (Called /\ Call.data # << >>) =>
          /\ Call.offset + Call.length <= Len(self[1].buffer)
          /\ Call.data = SubSeq(self[1].buffer, Call.offset + 1, Call.offset + Call.length)

\* 24 bytes asked of a 16-byte buffer, starting inside it.
C5_Witness ==
    /\ CallOutOfBounds
    /\ CallStart = 2 /\ CallEnd = 26
    /\ pc = "panicked"

(***************************************************************************)
(* C6.  Bounds are checked lazily: a structurally valid file loads even    *)
(* with an accessor that ends beyond the binary chunk; the failure comes   *)
(* only with a call for such an accessor, and calls for the in-range       *)
(* accessors of the same aggregate succeed.                                *)
(***************************************************************************)
StructurallyValid ==
    /\ GoodHeader /\ input.cut = 0 /\ input.stray = 0
    /\ InputTypes \subseteq {Json, Binary}
    /\ FirstBody(input.chunks, Json) # None
    /\ TextDoc(FirstBody(input.chunks, Json)[1]) # None
    /\ FirstBody(input.chunks, Binary) # None

CallInRange == CallResolves /\ CallTyped /\ CallEnd <= Len(self[1].buffer)

\* A to_meshes call has panicked.
MeshesPanicked == out # None /\ out[1].panic # ""

C6_Lazy ==
    /\ (StructurallyValid /\ Returned) => (Loaded /\ error = "" /\ self # None)
    /\ pc = "panicked" => (Called /\ Call.panic # "") \/ MeshesPanicked
    /\ (Called /\ Call.panic # "") => ~CallInRange
    /\ (Loaded /\ AccessorsBeyond(self[1].gltf, Len(self[1].buffer)) # {} /\ CallInRange)
          => /\ pc = "loaded" \/ MeshesPanicked
             /\ Call.panic = ""
             /\ Len(Call.data) = TableLength(CallAccessor)

\* Accessor 1 of the aggregate ends beyond the buffer; accessor 0 was served.
C6_Witness ==
    /\ pc = "loaded"
    /\ AccessorsBeyond(self[1].gltf, Len(self[1].buffer)) = {2}
    /\ Called /\ Call.accessor_ref = 0
    /\ Call.data = << 13, 14, 15, 16, 17, 18, 19, 20 >>

(***************************************************************************)
(* C7.  Every index reference of a loaded aggregate is in range; a file    *)
(* with an out-of-range index fails to load.                               *)
(*                                                                         *)
(* C7_Original fails: load validates no reference.  C7_Verbatim: a         *)
(* structurally valid file loads whatever its references are, the          *)
(* aggregate holds the document's references as they are, and a call       *)
(* through a dangling accessor or buffer-view reference panics.            *)
(***************************************************************************)
C7_Original == Loaded => RefsInRange(self[1].gltf)

C7_Verbatim ==
    /\ (StructurallyValid /\ Returned) =>
          /\ Loaded
          /\ self[1].gltf = TextDoc(FirstBody(input.chunks, Json)[1])[1]
    /\ (Called /\ ~CallResolves) =>
          /\ pc = "panicked"
          /\ Call.panic \in {"index out of bounds: accessors",
                             "index out of bounds: buffer_views"}

\* A loaded aggregate whose node names a child and a mesh that do not exist.
C7_Witness ==
    /\ pc = "loaded"
    /\ Len(self[1].gltf.nodes) = 1 /\ Len(self[1].gltf.meshes) = 0
    /\ self[1].gltf.nodes[1].children = << 2 >>
    /\ self[1].gltf.nodes[1].mesh = Some(1)

(***************************************************************************)
(* C8.  With a valid header and complete chunks, a stream without a JSON   *)
(* chunk fails with the error naming the JSON chunk, and a stream with a   *)
(* parseable JSON chunk and no BIN chunk fails with the error naming the   *)
(* binary chunk.                                                           *)
(*                                                                         *)
(* C8_Original fails on a stream holding a chunk of unknown type (the      *)
(* error is the chunk-type error) and on one whose first JSON chunk does   *)
(* not parse.  C8_Missing: the claim for streams of JSON and BIN chunks    *)
(* only, with the first JSON chunk the parseable one.                      *)
(***************************************************************************)
WholeFile == GoodHeader /\ input.cut = 0 /\ input.stray = 0
SomeParseableJson ==
    \E i \in DOMAIN input.chunks :
        input.chunks[i].type = Json /\ TextDoc(input.chunks[i].body) # None

C8_Original ==
    (WholeFile /\ Returned) =>
        /\ InputCount(Json) = 0 => (pc = "failed" /\ error = "NoJsonChunk" /\ self = None)
        /\ (SomeParseableJson /\ InputCount(Binary) = 0) =>
              (pc = "failed" /\ error = "NoBinaryChunk" /\ self = None)

C8_Missing ==
    (WholeFile /\ InputTypes \subseteq {Json, Binary} /\ Returned) =>
        /\ InputCount(Json) = 0 => (pc = "failed" /\ error = "NoJsonChunk" /\ self = None)
        /\ (/\ InputCount(Json) > 0
            /\ TextDoc(FirstBody(input.chunks, Json)[1]) # None
            /\ InputCount(Binary) = 0) =>
              (pc = "failed" /\ error = "NoBinaryChunk" /\ self = None)

C8_Witness ==
    /\ pc = "failed" /\ error = "NoBinaryChunk"
    /\ WholeFile
    /\ input.chunks = << ChunkJsonA, ChunkJsonB >>

(***************************************************************************)
(* C9.  load succeeds only if the stream holds exactly one JSON chunk and  *)
(* exactly one BIN chunk.                                                  *)
(*                                                                         *)
(* C9_Original fails: get_chunk takes the first chunk of a type and does   *)
(* not count.  C9_FirstOfEach: load succeeds only if the stream holds at   *)
(* least one chunk of each type, and the aggregate is built from the first *)
(* JSON chunk and the first BIN chunk.                                     *)
(***************************************************************************)
C9_Original == Loaded => (InputCount(Json) = 1 /\ InputCount(Binary) = 1)

C9_FirstOfEach ==
    Loaded =>
        /\ InputCount(Json) >= 1 /\ InputCount(Binary) >= 1
        /\ Some(self[1].gltf) = TextDoc(FirstBody(input.chunks, Json)[1])
        /\ self[1].buffer = FirstBody(input.chunks, Binary)[1]

\* Two BIN chunks and two JSON chunks: the first of each is loaded.
C9_Witness ==
    /\ pc = "loaded"
    /\ input.chunks = << ChunkBin2, ChunkJsonB, ChunkBin1 >>
    /\ self[1].buffer = Bin2 /\ self[1].gltf = DocB

(***************************************************************************)
(* C10.  With a valid header and complete chunk bodies, a chunk of unknown *)
(* type anywhere in the stream makes load fail, also when a valid JSON     *)
(* chunk and a valid BIN chunk are in the stream.                          *)
(***************************************************************************)
C10_UnknownChunk ==
    (GoodHeader /\ input.cut = 0 /\ ~(InputTypes \subseteq {Json, Binary})) =>
        /\ ~Loaded /\ self = None
        /\ Returned => (pc = "failed" /\ error = "ChunkType")
        /\ \A i \in DOMAIN chunks : chunks[i].chunk_type \in {Json, Binary}

C10_Witness ==
    /\ pc = "failed" /\ error = "ChunkType"
    /\ input.chunks = << ChunkJsonA, ChunkBin1, ChunkUnknown >>
    /\ Len(chunks) = 2

(***************************************************************************)
(* C11.  Chunk order does not matter: a whole file of one JSON chunk and   *)
(* one binary chunk, in either order, loads to the outcome (the error, or  *)
(* the aggregate with its JSON graph and buffer bytes) that Gltf::load     *)
(* gives for the file with the two chunks exchanged.                       *)
(***************************************************************************)
\* The file of the run with its two chunks exchanged.
SwappedFile ==
    FileBytes([input EXCEPT !.chunks = << input.chunks[2], input.chunks[1] >>])

JsonAndBinary ==
    /\ input.cut = 0
    /\ input.stray = 0
    /\ Len(input.chunks) = 2
    /\ {input.chunks[1].type, input.chunks[2].type} = {Json, Binary}

C11_ChunkOrder ==
    (Returned /\ JsonAndBinary) =>
        /\ [error |-> error, self |-> self] = load(file, json_doc)
        /\ [error |-> error, self |-> self] = load(SwappedFile, json_doc)

C11_Witness ==
    /\ Loaded
    /\ JsonAndBinary
    /\ input.chunks[1].type = Binary
    /\ self = Some([gltf |-> json_doc, buffer |-> input.chunks[1].body])
    /\ load(SwappedFile, json_doc).self = self

(***************************************************************************)
(* C12.  The third header word never influences loading: the outcome of a  *)
(* run equals what Gltf::load gives for the same bytes with any other      *)
(* third word, smaller than, equal to or larger than the stream length.    *)
(***************************************************************************)
\* The bytes of a file with its third header word replaced.
WithLengthWord(data, length) ==
    [i \in 1..Len(data) |-> IF i \in 9..12 THEN to_le_bytes(length)[i - 8] ELSE data[i]]

LengthWords == {0, 12, Len(file) - 1, Len(file), Len(file) + 1, 16777216}

C12_LengthIgnored ==
    (Returned /\ HasWord(3)) =>
        \A length \in LengthWords :
            [error |-> error, self |-> self]
                = load(WithLengthWord(file, length), json_doc)

C12_Witness ==
    /\ Loaded
    /\ Word(3) = 0
    /\ Len(file) > 12
    /\ load(WithLengthWord(file, Len(file)), json_doc).self = self
    /\ WithLengthWord(file, Len(file)) # file

(***************************************************************************)
(* C13.  As claimed: a file whose JSON document declares more than one     *)
(* buffer is not loaded; Gltf::load returns an UnsupportedFeature error    *)
(* and no aggregate.                                                       *)
(***************************************************************************)
MultiBuffer ==
    /\ StructurallyValid
    /\ FirstBody(input.chunks, Json) = Some(TextA)
    /\ Len(json_doc.buffers) > 1

C13_Original ==
    (Returned /\ MultiBuffer) =>
        /\ pc = "failed"
        /\ error = "UnsupportedFeature"
        /\ self = None

(***************************************************************************)
(* C14.  As claimed, every range load_accessor_data returns lies inside    *)
(* the accessor's buffer view and the view inside the buffer, and an       *)
(* accessor that overruns its view is not served (C14_Original).  The code *)
(* never reads bufferView.byteLength: the call's outcome is the same for   *)
(* every declared view length, a returned range lies inside the buffer,    *)
(* and every range inside the buffer is served (C14_BufferOnly).           *)
(***************************************************************************)
\* The aggregate with the byte length of the call's buffer view replaced.
WithViewLength(length) ==
    [self[1] EXCEPT !.gltf.buffer_views[CallAccessor.buffer_view + 1].byte_length = length]

CallOutcome ==
    Outcome(Call.panic, Call.data, Call.offset, Call.length)

OverrunsView == CallAccessor.byte_offset + TableLength(CallAccessor) > CallView.byte_length
ViewOverrunsBuffer == CallView.byte_offset + CallView.byte_length > Len(self[1].buffer)

C14_Original ==
    (CallResolves /\ CallTyped) =>
        /\ Call.panic = "" => ~OverrunsView /\ ~ViewOverrunsBuffer
        /\ OverrunsView => Call.panic # ""

C14_BufferOnly ==
    (CallResolves /\ CallTyped) =>
        /\ \A length \in 0..(BinLen + 1) :
              load_accessor_data(WithViewLength(length), Call.accessor_ref) = CallOutcome
        /\ Call.panic = "" <=> CallEnd <= Len(self[1].buffer)
        /\ Call.panic = "" =>
              Call.data = SubSeq(self[1].buffer, CallStart + 1, CallEnd)

C14_Witness ==
    /\ CallResolves
    /\ CallTyped
    /\ Call.panic = ""
    /\ Len(Call.data) > 0
    /\ OverrunsView
    /\ CallEnd <= Len(self[1].buffer)

(***************************************************************************)
(* Vocabulary of the to_meshes properties, read off the loaded document    *)
(* and the buffer.                                                         *)
(***************************************************************************)
Materialized == out # None
Out == out[1]
Meshes == self[1].gltf.meshes

\* The primitives as (mesh, primitive) pairs, and the place of each in mesh
\* order then primitive order.
PrimitivePairs ==
    UNION {{<< i, j >> : j \in DOMAIN Meshes[i].primitives} : i \in DOMAIN Meshes}
PrimitiveOf(pair) == Meshes[pair[1]].primitives[pair[2]]
Place(pair) ==
    Cardinality({other \in PrimitivePairs :
                    \/ other[1] < pair[1]
                    \/ other[1] = pair[1] /\ other[2] <= pair[2]})

\* An accessor reference that load_accessor_data serves, and its byte range.
RefServed(r) ==
    /\ r < Len(self[1].gltf.accessors)
    /\ self[1].gltf.accessors[r + 1].buffer_view < Len(self[1].gltf.buffer_views)
    /\ self[1].gltf.accessors[r + 1].component_type \in DOMAIN TableComponentWidth
    /\ self[1].gltf.accessors[r + 1].element_type \in DOMAIN TableElementWidth
    /\ self[1].gltf.accessors[r + 1].byte_offset
          + self[1].gltf.buffer_views[self[1].gltf.accessors[r + 1].buffer_view + 1].byte_offset
          + TableLength(self[1].gltf.accessors[r + 1]) <= Len(self[1].buffer)
RefStart(r) ==
    self[1].gltf.accessors[r + 1].byte_offset
      + self[1].gltf.buffer_views[self[1].gltf.accessors[r + 1].buffer_view + 1].byte_offset
RefLength(r) == TableLength(self[1].gltf.accessors[r + 1])
\* The data of the reference starts at a multiple of `align` (or is empty).
RefAligned(r, align) == RefLength(r) = 0 \/ (addr + RefStart(r)) % align = 0

PositionRef(q) == q.attributes["POSITION"]
PositionServed(q) == "POSITION" \in DOMAIN q.attributes /\ RefServed(PositionRef(q))
PositionOK(q) ==
    /\ PositionServed(q)
    /\ RefLength(PositionRef(q)) % 12 = 0
    /\ RefAligned(PositionRef(q), 4)
IndicesServed(q) == q.indices # None /\ RefServed(q.indices[1])
IndicesOK(q) ==
    /\ IndicesServed(q)
    /\ RefLength(q.indices[1]) % 2 = 0
    /\ RefAligned(q.indices[1], 2)
PrimitiveOK(q) == PositionOK(q) /\ IndicesOK(q)
EarlierOK(pair) ==
    \A other \in PrimitivePairs : Place(other) < Place(pair) => PrimitiveOK(PrimitiveOf(other))

NoIndexBuffers == "Aether currently doesn't support glTF meshes without index buffers"

(***************************************************************************)
(* C15.  As claimed, to_meshes on an aggregate with a primitive that has   *)
(* no indices accessor ends in an error outcome, not a program abort, and  *)
(* produces no mesh data (C15_Original).  The code panics: the call never  *)
(* returns, and when every earlier primitive and the primitive's own       *)
(* POSITION data materialize the panic is the one about index buffers     *)
(* (C15_Panics).                                                           *)
(***************************************************************************)
LacksIndices == {pair \in PrimitivePairs : PrimitiveOf(pair).indices = None}

C15_Original ==
    (Materialized /\ LacksIndices # {}) =>
        /\ pc # "panicked"
        /\ Out.panic = ""
        /\ Out.meshes = << >>

C15_Panics ==
    Materialized =>
        /\ LacksIndices # {} =>
              /\ pc = "panicked"
              /\ Out.panic # ""
              /\ Out.meshes = << >>
        /\ \A pair \in LacksIndices :
              (EarlierOK(pair) /\ PositionOK(PrimitiveOf(pair))) =>
                  Out.panic = NoIndexBuffers /\ Out.at = Place(pair)
        /\ Out.panic = NoIndexBuffers => LacksIndices # {}

C15_Witness ==
    /\ Materialized
    /\ Out.panic = NoIndexBuffers
    /\ Out.at = 2
    /\ \E pair \in LacksIndices : Place(pair) = 2

(***************************************************************************)
(* C16.  As claimed, POSITION data of a length L that is a multiple of 12  *)
(* gives L/12 vertices and any other length ends in a malformed-data       *)
(* error (C16_Original).  In the code the cast of a run also fails when    *)
(* the run does not start at a multiple of 4, and a failed cast is a       *)
(* panic: a call that returns has built, for every primitive, L/12         *)
(* vertices, the k-th from bytes [12k, 12k+12) of data that starts at a    *)
(* multiple of 4; a call that reaches POSITION data of another length or   *)
(* at another address panics and builds nothing (C16_Vertices).            *)
(***************************************************************************)
\* The 32-bit little-endian word at an offset of the buffer.
BufferWord(at) ==
    self[1].buffer[at + 1] + 256 * self[1].buffer[at + 2]
      + 65536 * self[1].buffer[at + 3] + 16777216 * self[1].buffer[at + 4]

ExpectedVertices(r) ==
    [k \in 1..(RefLength(r) \div 12) |->
        [position |-> << BufferWord(RefStart(r) + 12 * (k - 1)),
                        BufferWord(RefStart(r) + 12 * (k - 1) + 4),
                        BufferWord(RefStart(r) + 12 * (k - 1) + 8) >>]]

VertexPanic == "Failed to turn into a Vertex"

\* Every other primitive of the document materializes, and so do the
\* indices of this one.
OnlyPositionInQuestion(pair) ==
    /\ \A other \in PrimitivePairs \ {pair} : PrimitiveOK(PrimitiveOf(other))
    /\ IndicesOK(PrimitiveOf(pair))
    /\ PositionServed(PrimitiveOf(pair))

C16_Original ==
    Materialized =>
        \A pair \in PrimitivePairs :
            OnlyPositionInQuestion(pair) =>
                IF RefLength(PositionRef(PrimitiveOf(pair))) % 12 = 0
                THEN /\ Out.panic = ""
                     /\ Out.meshes[Place(pair)].vertices
                           = ExpectedVertices(PositionRef(PrimitiveOf(pair)))
                ELSE /\ pc # "panicked"
                     /\ Out.meshes = << >>

C16_Vertices ==
    Materialized =>
        /\ Out.panic = "" =>
              \A pair \in PrimitivePairs :
                  /\ RefLength(PositionRef(PrimitiveOf(pair))) % 12 = 0
                  /\ RefAligned(PositionRef(PrimitiveOf(pair)), 4)
                  /\ Out.meshes[Place(pair)].vertices
                        = ExpectedVertices(PositionRef(PrimitiveOf(pair)))
        /\ \A pair \in PrimitivePairs :
              (/\ EarlierOK(pair)
               /\ PositionServed(PrimitiveOf(pair))
               /\ ~PositionOK(PrimitiveOf(pair))) =>
                  /\ pc = "panicked"
                  /\ Out.panic = VertexPanic
                  /\ Out.at = Place(pair)
                  /\ Out.meshes = << >>
        /\ \A pair \in PrimitivePairs :
              OnlyPositionInQuestion(pair) /\ PositionOK(PrimitiveOf(pair)) =>
                  Out.panic = ""

\* A returned call that built two vertices for a primitive.
C16_Witness ==
    /\ Materialized
    /\ Out.panic = ""
    /\ \E pair \in PrimitivePairs :
          /\ RefLength(PositionRef(PrimitiveOf(pair))) = 24
          /\ Len(Out.meshes[Place(pair)].vertices) = 2
          /\ Out.meshes[Place(pair)].vertices[2].position[1]
                = BufferWord(RefStart(PositionRef(PrimitiveOf(pair))) + 12)

\* A call that panicked on POSITION data of a whole number of runs at an
\* address that is not a multiple of 4.
C16_WitnessPanic ==
    /\ Materialized
    /\ Out.panic = VertexPanic
    /\ \E pair \in PrimitivePairs :
          /\ Place(pair) = Out.at
          /\ PositionServed(PrimitiveOf(pair))
          /\ RefLength(PositionRef(PrimitiveOf(pair))) % 12 = 0
          /\ RefLength(PositionRef(PrimitiveOf(pair))) > 0

(***************************************************************************)
(* C17.  As claimed, index data of even length L gives L/2 indices, the    *)
(* k-th equal to byte[2k] + 256*byte[2k+1] (C17_Original).  In the code    *)
(* the cast of a run also fails when the run starts at an odd address: a   *)
(* call that returns has built, for every primitive, L/2 indices with      *)
(* those values, all in 0..65535, from data of even length at an even      *)
(* address; a call that reaches index data of odd length or at an odd      *)
(* address panics (C17_Indices).                                           *)
(***************************************************************************)
ExpectedIndices(r) ==
    [k \in 1..(RefLength(r) \div 2) |->
        self[1].buffer[RefStart(r) + 2 * k - 1] + 256 * self[1].buffer[RefStart(r) + 2 * k]]

IndexPanic == "Failed to turn into a index"

\* Every other primitive of the document materializes, and so does the
\* POSITION data of this one; its index data is served.
OnlyIndicesInQuestion(pair) ==
    /\ \A other \in PrimitivePairs \ {pair} : PrimitiveOK(PrimitiveOf(other))
    /\ PositionOK(PrimitiveOf(pair))
    /\ IndicesServed(PrimitiveOf(pair))

C17_Original ==
    Materialized =>
        \A pair \in PrimitivePairs :
            (/\ OnlyIndicesInQuestion(pair)
             /\ RefLength(PrimitiveOf(pair).indices[1]) % 2 = 0) =>
                /\ Out.panic = ""
                /\ Out.meshes[Place(pair)].indices
                      = ExpectedIndices(PrimitiveOf(pair).indices[1])

C17_Indices ==
    Materialized =>
        /\ Out.panic = "" =>
              \A pair \in PrimitivePairs :
                  /\ RefLength(PrimitiveOf(pair).indices[1]) % 2 = 0
                  /\ RefAligned(PrimitiveOf(pair).indices[1], 2)
                  /\ Out.meshes[Place(pair)].indices
                        = ExpectedIndices(PrimitiveOf(pair).indices[1])
                  /\ \A k \in DOMAIN Out.meshes[Place(pair)].indices :
                        Out.meshes[Place(pair)].indices[k] \in 0..65535
        /\ \A pair \in PrimitivePairs :
              (/\ EarlierOK(pair)
               /\ PositionOK(PrimitiveOf(pair))
               /\ IndicesServed(PrimitiveOf(pair))
               /\ ~IndicesOK(PrimitiveOf(pair))) =>
                  /\ pc = "panicked"
                  /\ Out.panic = IndexPanic
                  /\ Out.at = Place(pair)
                  /\ Out.meshes = << >>
        /\ \A pair \in PrimitivePairs :
              OnlyIndicesInQuestion(pair) /\ IndicesOK(PrimitiveOf(pair)) =>
                  Out.panic = ""

\* A returned call that built two indices above 255 for a primitive.
C17_Witness ==
    /\ Materialized
    /\ Out.panic = ""
    /\ \E pair \in PrimitivePairs :
          /\ RefLength(PrimitiveOf(pair).indices[1]) = 4
          /\ Len(Out.meshes[Place(pair)].indices) = 2
          /\ Out.meshes[Place(pair)].indices[2] > 255
          /\ Out.meshes[Place(pair)].indices[2]
                = self[1].buffer[RefStart(PrimitiveOf(pair).indices[1]) + 3]
                    + 256 * self[1].buffer[RefStart(PrimitiveOf(pair).indices[1]) + 4]

\* A call that panicked on index data of even length at an odd address.
C17_WitnessPanic ==
    /\ Materialized
    /\ Out.panic = IndexPanic
    /\ \E pair \in PrimitivePairs :
          /\ Place(pair) = Out.at
          /\ IndicesServed(PrimitiveOf(pair))
          /\ RefLength(PrimitiveOf(pair).indices[1]) % 2 = 0
          /\ RefLength(PrimitiveOf(pair).indices[1]) > 0

(***************************************************************************)
(* C18.  A to_meshes call that returns gives one (vertices, indices) pair  *)
(* per primitive: as many pairs as there are primitives over all meshes,   *)
(* in mesh order then primitive order, each built from the POSITION and    *)
(* indices accessors of its own primitive; and the call returns whenever   *)
(* every primitive materializes.                                           *)
(***************************************************************************)
C18_OnePairPerPrimitive ==
    Materialized =>
        /\ Out.panic = "" =>
              /\ Len(Out.meshes) = Cardinality(PrimitivePairs)
              /\ \A pair \in PrimitivePairs :
                    Out.meshes[Place(pair)]
                      = [vertices |-> ExpectedVertices(PositionRef(PrimitiveOf(pair))),
                         indices |-> ExpectedIndices(PrimitiveOf(pair).indices[1])]
        /\ (\A pair \in PrimitivePairs : PrimitiveOK(PrimitiveOf(pair))) => Out.panic = ""

\* A returned call on a mesh of two different primitives, an empty mesh and
\* a mesh of one primitive.
C18_Witness ==
    /\ Materialized
    /\ Out.panic = ""
    /\ Len(Meshes) = 3
    /\ Len(Meshes[1].primitives) = 2
    /\ Len(Out.meshes) = 3
    /\ Out.meshes[1] # Out.meshes[2]
    /\ Out.meshes[3] # Out.meshes[2]

(***************************************************************************)
(* Vocabulary of the node properties (SpecOld): the nodes resolved so far  *)
(* and the document nodes they were resolved from.                         *)
(***************************************************************************)
ResolvedNodes == IF old = None THEN {} ELSE DOMAIN old[1].nodes
Resolved(k) == old[1].nodes[k].matrix
Declared(k) == json_doc.nodes[k]

(***************************************************************************)
(* C19.  As claimed: a node with scale (2,1,1), the identity rotation,     *)
(* translation (5,0,0) and no matrix resolves to the transform that maps   *)
(* (x,y,z) to (2x+5, y, z); the translation column of its matrix is        *)
(* (5,0,0).  The code's matrix maps (x,y,z) to (2x+10, y, z): its          *)
(* translation column is (10,0,0) (C19_CodeScalesTranslation).             *)
(***************************************************************************)
ScaleThenTranslate(k) ==
    /\ Declared(k).matrix = None
    /\ Declared(k).scale = Some(<< 2, 1, 1 >>)
    /\ Declared(k).rotation = Some(<< 0, 0, 0, 1 >>)
    /\ Declared(k).translation = Some(<< 5, 0, 0 >>)

C19_Original ==
    \A k \in ResolvedNodes :
        ScaleThenTranslate(k) =>
            Resolved(k) = << << 2, 0, 0, 5 >>,
                             << 0, 1, 0, 0 >>,
                             << 0, 0, 1, 0 >>,
                             << 0, 0, 0, 1 >> >>

C19_CodeScalesTranslation ==
    \A k \in ResolvedNodes :
        ScaleThenTranslate(k) =>
            Resolved(k) = << << 2, 0, 0, 10 >>,
                             << 0, 1, 0, 0 >>,
                             << 0, 0, 1, 0 >>,
                             << 0, 0, 0, 1 >> >>

C19_Witness == \E k \in ResolvedNodes : ScaleThenTranslate(k)

(***************************************************************************)
(* C20.  A node that declares a matrix resolves to exactly that matrix,    *)
(* read column-major: entry (row r, column c) is the (4(c-1)+r)-th value,  *)
(* whatever the node's translation, rotation and scale are.                *)
(***************************************************************************)
C20_MatrixVerbatim ==
    \A k \in ResolvedNodes :
        Declared(k).matrix # None =>
            \A r \in 1..4, c \in 1..4 :
                Resolved(k)[r][c] = Declared(k).matrix[1][4 * (c - 1) + r]

\* A resolved node with a matrix and all of translation, rotation, scale.
C20_Witness ==
    \E k \in ResolvedNodes :
        /\ Declared(k).matrix = Some(Mat16A)
        /\ Declared(k).translation # None
        /\ Declared(k).rotation = Some(<< 0, 0, 1, 1 >>)
        /\ Declared(k).scale # None
        /\ Resolved(k)[1][2] = 5
        /\ Resolved(k)[4][1] = 4

(***************************************************************************)
(* C21.  As claimed: a node without a matrix resolves to the product       *)
(* T * R * S, an absent component being the identity; a node with only a   *)
(* rotation resolves to the quaternion's rotation matrix, off-diagonal     *)
(* entries included.  The code multiplies the rotation matrix into the     *)
(* scale matrix entry by entry and multiplies the translation in last, on  *)
(* the right: a node with only a rotation keeps just the diagonal of the   *)
(* rotation matrix (C21_CodeKeepsDiagonal).                                *)
(***************************************************************************)
TranslationMatrix(n) ==
    IF n.translation = None THEN identity
    ELSE [r \in 1..4 |-> [c \in 1..4 |->
             IF r = c THEN 1 ELSE IF c = 4 THEN n.translation[1][r] ELSE 0]]
RotationMatrix(n) ==
    IF n.rotation = None THEN identity
    ELSE LET i == n.rotation[1][1]
             j == n.rotation[1][2]
             k == n.rotation[1][3]
             w == n.rotation[1][4]
         IN  << << w*w + i*i - j*j - k*k, 2*i*j - 2*w*k, 2*w*j + 2*i*k, 0 >>,
                << 2*w*k + 2*i*j, w*w - i*i + j*j - k*k, 2*j*k - 2*w*i, 0 >>,
                << 2*i*k - 2*w*j, 2*w*i + 2*j*k, w*w - i*i - j*j + k*k, 0 >>,
                << 0, 0, 0, 1 >> >>
ScaleMatrix(n) ==
    IF n.scale = None THEN identity
    ELSE [r \in 1..4 |-> [c \in 1..4 |->
             IF r # c THEN 0 ELSE IF r = 4 THEN 1 ELSE n.scale[1][r]]]
Product(a, b) ==
    [r \in 1..4 |-> [c \in 1..4 |->
        a[r][1] * b[1][c] + a[r][2] * b[2][c] + a[r][3] * b[3][c] + a[r][4] * b[4][c]]]

C21_Original ==
    \A k \in ResolvedNodes :
        Declared(k).matrix = None =>
            Resolved(k) = Product(TranslationMatrix(Declared(k)),
                                  Product(RotationMatrix(Declared(k)),
                                          ScaleMatrix(Declared(k))))

OnlyRotation(k) ==
    /\ Declared(k).matrix = None
    /\ Declared(k).translation = None
    /\ Declared(k).scale = None
    /\ Declared(k).rotation # None

C21_CodeKeepsDiagonal ==
    \A k \in ResolvedNodes :
        OnlyRotation(k) =>
            \A r \in 1..4, c \in 1..4 :
                Resolved(k)[r][c]
                  = IF r = c THEN RotationMatrix(Declared(k))[r][c] ELSE 0

\* A resolved node with only a rotation whose matrix has off-diagonal entries.
C21_Witness ==
    \E k \in ResolvedNodes :
        /\ OnlyRotation(k)
        /\ RotationMatrix(Declared(k))[2][1] = 2
        /\ Resolved(k)[2][1] = 0

(***************************************************************************)
(* C22.  Extraction never changes the aggregate: after any sequence of     *)
(* load_accessor_data and to_meshes calls the aggregate is still the one   *)
(* Gltf::load returned for the file, and every call, the first or a later  *)
(* one, has returned what the function gives on that aggregate: a repeated *)
(* call for an accessor returns the bytes of the first.                    *)
(***************************************************************************)
AsLoaded == load(file, json_doc).self

C22_ReadOnly ==
    Loaded =>
        /\ self = AsLoaded
        /\ Called => CallOutcome = load_accessor_data(AsLoaded[1], Call.accessor_ref)
        /\ Materialized => Out = to_meshes(AsLoaded[1], addr)

\* Both extractions have been called and have returned data.
C22_Witness ==
    /\ pc = "loaded"
    /\ Called
    /\ Call.panic = ""
    /\ Len(Call.data) > 0
    /\ Materialized
    /\ Len(Out.meshes) > 0
    /\ self = AsLoaded

(***************************************************************************)
(* vulkan/device.rs                                                        *)
(***************************************************************************)
SwapchainCalled == created # None
Creation == created[1]
Formats == device[1].physical.swapchain.formats
Modes == device[1].physical.swapchain.modes
SwapchainCreated == SwapchainCalled /\ Creation.swapchain # None
DriverReached == SwapchainCalled /\ Creation.info # None

\* C23 as stated: create_swapchain panics when the device reports no surface
\* formats and also when it reports no present modes, and never creates a
\* swapchain from an empty format list or an empty present-mode list.
C23_Original ==
    SwapchainCalled =>
        /\ Formats = << >> => Creation.panic # ""
        /\ Modes = << >> => Creation.panic # ""
        /\ SwapchainCreated => Formats # << >> /\ Modes # << >>

\* C23, what the code does: no formats is the panic "No swapchain formats"
\* before the driver is reached; no present modes (with a format) is no
\* panic of the selection: FIFO is requested from the driver.
C23_CodeFallsBackToFifo ==
    SwapchainCalled =>
        /\ Formats = << >> <=> Creation.panic = "No swapchain formats"
        /\ Formats = << >> => ~DriverReached
        /\ Formats # << >> /\ Modes = << >> =>
               /\ DriverReached
               /\ Creation.info[1].present_mode = "FIFO"

\* A swapchain was created for a device that reports no present modes.
C23_Witness ==
    /\ SwapchainCreated
    /\ Modes = << >>
    /\ Formats # << >>
    /\ Creation.panic = ""
    /\ Creation.error = ""

(***************************************************************************)
(* C24.  Chunks are read as consecutive (length, type, body) records until *)
(* the stream is exhausted; every chunk accepted has a body of exactly its *)
(* declared length; a record whose declared length exceeds the bytes that  *)
(* remain, or whose type word is cut off, makes load return an error.      *)
(***************************************************************************)
\* The records as they lie in the file: the k-th starts where the (k-1)-th
\* ends, the first after the 12-byte header.
RECURSIVE RecordAt(_)
RecordAt(k) ==
    IF k = 1 THEN 12
    ELSE RecordAt(k - 1) + 8
         + from_le_bytes(SubSeq(file, RecordAt(k - 1) + 1, RecordAt(k - 1) + 4))

HasLengthWord(k) == RecordAt(k) + 4 <= Len(file)
HasTypeWord(k) == RecordAt(k) + 8 <= Len(file)
DeclaredLength(k) == from_le_bytes(SubSeq(file, RecordAt(k) + 1, RecordAt(k) + 4))
TypeWord(k) == from_le_bytes(SubSeq(file, RecordAt(k) + 5, RecordAt(k) + 8))
RecordComplete(k) ==
    HasTypeWord(k) /\ RecordAt(k) + 8 + DeclaredLength(k) <= Len(file)
\* The record after the chunks accepted so far begins but is cut short.
NextRecord == Len(chunks) + 1
NextRecordShort == HasLengthWord(NextRecord) /\ ~RecordComplete(NextRecord)

C24_WholeChunks ==
    /\ \A k \in 1..Len(chunks) :
           /\ RecordComplete(k)
           /\ chunks[k].chunk_type = TypeWord(k)
           /\ Len(chunks[k].data) = DeclaredLength(k)
           /\ chunks[k].data = SubSeq(file, RecordAt(k) + 9,
                                      RecordAt(k) + 8 + DeclaredLength(k))
    /\ pc = "chunks" => pos = RecordAt(NextRecord)
    /\ pc \in {"loaded", "panicked"} => ~HasLengthWord(NextRecord)
    /\ (pc \notin {"header", "chunks"} /\ Len(file) >= 12 /\ NextRecordShort) =>
           /\ pc = "failed"
           /\ check_header(Word(1), Word(2)) = "" => error = "UnexpectedEof"

\* After one accepted chunk the stream ends inside the next type word.
C24_Witness ==
    /\ pc = "failed" /\ error = "UnexpectedEof"
    /\ Len(chunks) = 1
    /\ HasLengthWord(2) /\ ~HasTypeWord(2)

\* After one accepted chunk the next body is shorter than declared.
C24_WitnessBody ==
    /\ pc = "failed" /\ error = "UnexpectedEof"
    /\ Len(chunks) = 1
    /\ HasTypeWord(2) /\ ~RecordComplete(2)
    /\ RecordAt(2) + 8 < Len(file)

(***************************************************************************)
(* C25.  The chunk loop ends silently on a failed read of a length word:   *)
(* a file followed by 1, 2 or 3 extra bytes loads exactly as the file      *)
(* without them, and successfully when that file is a valid GLB.           *)
(***************************************************************************)
\* The file without its stray bytes, and what load makes of it.
Stripped == FileBytes([input EXCEPT !.stray = 0])
LoadStripped == load(Stripped, json_doc)
FewStrayBytes == input.cut = 0 /\ input.stray \in 1..3

C25_StrayBytesIgnored ==
    (FewStrayBytes /\ Returned) =>
        /\ Len(file) = Len(Stripped) + input.stray
        /\ [error |-> error, self |-> self] = LoadStripped
        /\ LoadStripped.error = "" => (Loaded /\ self # None)

\* A JSON chunk, a binary chunk and three stray bytes: loaded.
C25_Witness ==
    /\ FewStrayBytes /\ input.stray = 3
    /\ pc = "loaded"
    /\ Len(chunks) = 2
    /\ self = LoadStripped.self
    /\ pos = Len(file)

(***************************************************************************)
(* C26.  to_meshes ignores the index accessor's component type and splits  *)
(* its data into 2-byte values: a primitive gets (accessor byte length)/2  *)
(* indices, which is the accessor's count for 16-bit index accessors and   *)
(* 2n for an accessor of n 32-bit indices.                                 *)
(***************************************************************************)
IndexAccessor(pair) == self[1].gltf.accessors[PrimitiveOf(pair).indices[1] + 1]
IndexCount(pair) == Len(Out.meshes[Place(pair)].indices)

C26_IndexCount ==
    (Materialized /\ Out.panic = "") =>
        \A pair \in PrimitivePairs :
            /\ 2 * IndexCount(pair) = RefLength(PrimitiveOf(pair).indices[1])
            /\ IndexAccessor(pair).element_type = "SCALAR" =>
                  /\ IndexAccessor(pair).component_type = 5123 =>
                        IndexCount(pair) = IndexAccessor(pair).count
                  /\ IndexAccessor(pair).component_type = 5125 =>
                        IndexCount(pair) = 2 * IndexAccessor(pair).count
                  /\ (IndexAccessor(pair).count > 0
                        /\ IndexCount(pair) = IndexAccessor(pair).count) =>
                        IndexAccessor(pair).component_type \in {5122, 5123}

\* A returned call that emitted two indices for one 32-bit index.
C26_Witness ==
    /\ Materialized
    /\ Out.panic = ""
    /\ \E pair \in PrimitivePairs :
          /\ IndexAccessor(pair).element_type = "SCALAR"
          /\ IndexAccessor(pair).component_type = 5125
          /\ IndexAccessor(pair).count = 1
          /\ IndexCount(pair) = 2

(***************************************************************************)
(* ecs/mod.rs                                                              *)
(***************************************************************************)
Entities == world[1].entities
PresentIDs == { Entities[i].id : i \in DOMAIN Entities }
\* The places (entity, position) of the children lists that hold an id.
ChildPlaces(id) ==
    { << i, k >> \in (DOMAIN Entities) \X (1..MaxEntities) :
          k <= Len(Entities[i].children) /\ Entities[i].children[k] = id }
EcsCall == ecs_call[1]
EntityCreated == ecs_call # None /\ EcsCall.op = "new_entity"
ComponentAsked == ecs_call # None /\ EcsCall.op = "get_component"

\* C27: every id in a children list is the id of an entity of the world,
\* and no id is in two places of the children lists.
C27_ChildrenPresent ==
    world # None =>
        /\ \A i \in DOMAIN Entities :
              /\ Len(Entities[i].children) <= MaxEntities
              /\ \A k \in DOMAIN Entities[i].children :
                    Entities[i].children[k] \in PresentIDs
        /\ \A id \in PresentIDs : Cardinality(ChildPlaces(id)) <= 1
        /\ \A i, j \in DOMAIN Entities : Entities[i].id = Entities[j].id => i = j

\* C27: a new_entity call appends the new entity, without components or
\* children, and changes no other entity than the parent found, which gets
\* the new id at the end of its children; a parent not found changes none.
C27_NewEntityStep ==
    (world # None /\ world' # world /\ ecs_call' # None /\ ecs_call'[1].op = "new_entity") =>
        LET before == world[1].entities
            after  == world'[1].entities
            call   == ecs_call'[1]
        IN  /\ Len(after) = Len(before) + 1
            /\ after[Len(after)] = Entity(call.id)
            /\ call.id \notin { before[i].id : i \in DOMAIN before }
            /\ \A i \in DOMAIN before :
                  IF call.parent # None /\ before[i].id = call.parent[1]
                  THEN after[i] = [before[i] EXCEPT !.children = Append(@, call.id)]
                  ELSE after[i] = before[i]

\* C27.  After any sequence of new_entity calls, with any parent arguments,
\* every id in a children list identifies an entity of the world, each
\* entity is in at most one children list, and a call whose parent is not
\* found still adds the new entity and changes no existing entity.
C27_Children == [] C27_ChildrenPresent /\ [][C27_NewEntityStep]_vars

\* The last call named a parent that is not in the world; the entity was
\* added after two others, of which one is the parent of the other.
C27_Witness ==
    /\ EntityCreated
    /\ EcsCall.parent = Some(ForeignID)
    /\ Len(Entities) = 3
    /\ Entities[3].id = EcsCall.id
    /\ Entities[1].children = << Entities[2].id >>
    /\ ChildPlaces(EcsCall.id) = {}

(***************************************************************************)
(* C28.  get_component::<T>() does not select by component kind: it        *)
(* returns None exactly when the entity has no components, and otherwise   *)
(* the first component added, whatever its variant.                        *)
(***************************************************************************)
Asked == Entities[EcsCall.entity]

C28_FirstComponent ==
    ComponentAsked =>
        /\ EcsCall.result = None <=> Asked.components = << >>
        /\ Asked.components # << >> => EcsCall.result = Some(Asked.components[1])

\* Components only ever grow at the end: the first one stays the first added.
C28_AddComponentStep ==
    (world # None /\ ecs_call' # None /\ ecs_call'[1].op = "add_component") =>
        \A i \in DOMAIN world[1].entities :
            world'[1].entities[i].components
                = IF i = ecs_call'[1].entity
                  THEN Append(world[1].entities[i].components, ecs_call'[1].component)
                  ELSE world[1].entities[i].components

C28_FirstAdded == [] C28_FirstComponent /\ [][C28_AddComponentStep]_vars

\* Asked for a Position, the entity answered with the Tag added first.
C28_Witness ==
    /\ ComponentAsked
    /\ EcsCall.T = "Position"
    /\ Asked.components = << Tag("a"), Position(1, 2) >>
    /\ EcsCall.result = Some(Tag("a"))

(***************************************************************************)
(* renderer/mod.rs                                                         *)
(***************************************************************************)
\* The place of the last new_frame before call k (0: none).
LastNewFrame(k) ==
    IF \E j \in 1..(k - 1) : recorded[j].op = "new_frame"
    THEN CHOOSE j \in 1..(k - 1) :
             /\ recorded[j].op = "new_frame"
             /\ \A i \in (j + 1)..(k - 1) : recorded[i].op # "new_frame"
    ELSE 0

\* The drawables passed to add between call j and call k, in order.
RECURSIVE AddedBetween(_, _)
AddedBetween(j, k) ==
    IF k <= j + 1 THEN << >>
    ELSE IF recorded[k - 1].op = "add"
    THEN Append(AddedBetween(j, k - 1), recorded[k - 1].drawable)
    ELSE AddedBetween(j, k - 1)

\* The draws of a command buffer: what was drawn, in order.
Draws(command) ==
    LET is_draw(c) == c.op \in {"draw", "draw_indexed"}
        drawn == SelectSeq(command, is_draw)
    IN  [i \in DOMAIN drawn |-> drawn[i].object]

Buffers(drawables) == [i \in DOMAIN drawables |-> drawables[i].buffer]

EndFrames == { k \in DOMAIN recorded : recorded[k].op = "end_frame" }

(***************************************************************************)
(* C29.  end_frame records one draw per drawable passed to add since the   *)
(* most recent new_frame, in the order added; new_frame empties the draw   *)
(* list and end_frame leaves it unchanged, so a second end_frame records   *)
(* the same draws again; end_frame before any new_frame aborts, no         *)
(* framebuffer being set.                                                  *)
(***************************************************************************)
C29_DrawsPerFrame ==
    renderer # None =>
        /\ \A k \in EndFrames :
              /\ recorded[k].panic = "" =>
                    /\ LastNewFrame(k) # 0
                    /\ Draws(recorded[k].command)
                          = Buffers(AddedBetween(LastNewFrame(k), k))
                    /\ recorded[k].command[1]
                          = Command("begin_render_pass",
                                    recorded[LastNewFrame(k)].framebuffer)
              /\ LastNewFrame(k) = 0 =>
                    /\ recorded[k].panic # ""
                    /\ recorded[k].primary => recorded[k].panic = UnwrapNone
        /\ renderer[1].draw_list
              = AddedBetween(LastNewFrame(Len(recorded) + 1), Len(recorded) + 1)
        /\ renderer[1].framebuffer = None <=> LastNewFrame(Len(recorded) + 1) = 0

\* A drawable added before the frame began, one added after, and two
\* end_frame calls that each recorded the draw of the second one only.
C29_Witness ==
    /\ Len(recorded) = 5
    /\ recorded[1].op = "add" /\ recorded[1].drawable = DrawableMesh("m")
    /\ recorded[2].op = "new_frame"
    /\ recorded[3].op = "add" /\ recorded[3].drawable = Triangle("t")
    /\ recorded[4].op = "end_frame" /\ recorded[4].panic = ""
    /\ recorded[5].op = "end_frame" /\ recorded[5].panic = ""
    /\ Draws(recorded[4].command) = << "t" >>
    /\ Draws(recorded[5].command) = << "t" >>
    /\ renderer[1].draw_list = << Triangle("t") >>

\* end_frame before any new_frame: the unwrap of the framebuffer panics.
C29_WitnessAbort ==
    /\ Len(recorded) = 2
    /\ recorded[1].op = "add"
    /\ recorded[2].op = "end_frame" /\ recorded[2].panic = UnwrapNone

(***************************************************************************)
(* arbiter/src/main.rs                                                     *)
(***************************************************************************)
Arbiter == arbiter[1]
Locals == Arbiter.locals
FrameDrawn == arbiter # None /\ Arbiter.frame # None
Frame == Arbiter.frame[1]

\* C30: frames are drawn only by a handler entered with the flag set; the
\* flag is not set before a Resized event; a frame is drawn with the
\* pipeline of the last get_pipeline call, made after the last Resized
\* event for the size the window had then.
C30_FramesFollowResized ==
    arbiter # None =>
        /\ Arbiter.events = 0 => ~Locals.recreate_swapchain /\ ~Locals.window_resized
        /\ ~Arbiter.resized =>
              /\ ~Locals.recreate_swapchain
              /\ Arbiter.frames = 0
              /\ Arbiter.rebuilt = None
        /\ Arbiter.frames > 0 <=> FrameDrawn
        /\ FrameDrawn =>
              /\ Frame.on_entry
              /\ ~Frame.stale
              /\ Arbiter.resized
              /\ Frame.rebuilt # None
              /\ Frame.rebuilt[1].viewport = Frame.rebuilt[1].inner_size
              /\ Frame.pipeline = Pipeline(Frame.rebuilt[1].viewport)
        /\ Arbiter.rebuilt # None =>
              /\ Arbiter.rebuilt[1].viewport = Arbiter.rebuilt[1].inner_size
              /\ Locals.pipeline = Pipeline(Arbiter.rebuilt[1].viewport)
              /\ Arbiter.panic \notin PipelineSteps =>
                    Locals.viewport = Arbiter.rebuilt[1].viewport
        /\ Arbiter.panic \in PipelineSteps =>
              /\ Arbiter.event = "MainEventsCleared"
              /\ Arbiter.stale
              /\ ~Locals.recreate_swapchain /\ ~Locals.window_resized
        /\ (Arbiter.stale /\ Arbiter.panic = "") =>
              Locals.recreate_swapchain /\ Locals.window_resized

\* C30: outside MainEventsCleared only a Resized event sets the flag, and
\* no event but MainEventsCleared clears it or draws a frame.
C30_FlagStep ==
    (arbiter # None /\ arbiter' # None /\ arbiter'[1].events # arbiter[1].events
        /\ arbiter'[1].event # "MainEventsCleared") =>
        /\ arbiter'[1].locals.recreate_swapchain # arbiter[1].locals.recreate_swapchain =>
              /\ arbiter'[1].event = "Resized"
              /\ arbiter'[1].locals.recreate_swapchain
        /\ arbiter'[1].event = "Resized" => arbiter'[1].locals.recreate_swapchain
        /\ arbiter'[1].frames = arbiter[1].frames
        /\ arbiter'[1].locals.pipeline = arbiter[1].locals.pipeline

\* C30.  A frame is acquired, drawn and presented during MainEventsCleared
\* only when recreate_swapchain was true on entry; the flag starts false
\* and is set outside the handler only by a Resized event, so no draw is
\* submitted before the first Resized event, and after a Resized event the
\* pipeline is rebuilt with the window's current size before the next draw.
C30_DrawOnlyAfterResize == [] C30_FramesFollowResized /\ [][C30_FlagStep]_vars

\* The window changed size, a Resized event was handled, and the next
\* MainEventsCleared drew and presented a frame with a pipeline built for
\* the new size.
C30_Witness ==
    /\ FrameDrawn
    /\ Arbiter.event = "MainEventsCleared"
    /\ Arbiter.frames = 1
    /\ Frame.presented
    /\ Frame.pipeline = Pipeline(Extent2D(1024, 768))
    /\ Frame.swapchain = Extent2D(1024, 768)
    /\ Arbiter.inner_size = Extent2D(1024, 768)
    /\ ~Locals.recreate_swapchain
    /\ Arbiter.events = 2

\* The window had one size when the swapchain was recreated and another
\* when the pipeline was rebuilt; the frame was drawn with both.
C30_WitnessTwoSizes ==
    /\ FrameDrawn
    /\ Frame.swapchain = Extent2D(800, 600)
    /\ Frame.pipeline = Pipeline(Extent2D(1024, 768))
    /\ Frame.presented

\* get_pipeline panicked in the handler after a Resized event.
C30_WitnessPipelinePanic ==
    /\ arbiter # None
    /\ Arbiter.panic = "pipeline"
    /\ Arbiter.frames = 0

====
